---- MODULE Spec2Model ----
(***************************************************************************)
(* Model of the wallet orchestrator of Dorafanboy/retro (package app):     *)
(* prepareWalletsToProcess, Run, runProcessing, runSequentially,           *)
(* runParallel, processWalletWorker, handleParallelResults, and the        *)
(* checkpoint kept by the state store under last_completed_wallet_index.   *)
(***************************************************************************)
EXTENDS Integers, Sequences, FiniteSets, TLC

\* ---------------------------------------------------------------- bounds
MaxWallets == 3         \* longest identity list
MaxParWallets == 2      \* longest identity list run under every parallel configuration
MaxTasks == 2           \* most entries of cfg.Tasks
MaxAttempts == 3        \* largest cfg.Delay.BetweenRetries.Attempts
MaxCfgTasks == 3        \* most entries of cfg.Tasks handed to the selector
MaxSeqLen == 3          \* longest cfg.Actions.ExplicitTaskSequence
MaxCount == 2           \* largest bound of cfg.Actions.ActionsPerAccount

\* ------------------------------------------------------------- constants
\* the key is absent: GetState fails with storage.ErrStateNotFound
NotFound == [found |-> FALSE, value |-> <<>>]
Stored(v) == [found |-> TRUE, value |-> v]
CtxErr == "context.Canceled"
TaskErr == "task error"
Nil == "nil"

Digits == <<"0", "1", "2", "3", "4", "5", "6", "7", "8", "9">>

Max(a, b) == IF a > b THEN a ELSE b

\* ------------------------------------------------------ strconv.Itoa/Atoi
RECURSIVE ItoaNat(_)
ItoaNat(n) ==
    IF n < 10 THEN <<Digits[n + 1]>>
    ELSE ItoaNat(n \div 10) \o <<Digits[(n % 10) + 1]>>

Itoa(n) == IF n < 0 THEN <<"-">> \o ItoaNat(0 - n) ELSE ItoaNat(n)

IsDigit(c) == \E d \in 1..10 : Digits[d] = c

DigitVal(c) == (CHOOSE d \in 1..10 : Digits[d] = c) - 1

RECURSIVE AtoiNat(_)
AtoiNat(s) ==
    IF Len(s) = 1 THEN DigitVal(s[1])
    ELSE AtoiNat(SubSeq(s, 1, Len(s) - 1)) * 10 + DigitVal(s[Len(s)])

\* strconv.Atoi: optional sign, then one or more decimal digits
Atoi(s) ==
    LET signed == Len(s) > 0 /\ s[1] \in {"-", "+"}
        body == IF signed THEN SubSeq(s, 2, Len(s)) ELSE s
    IN IF Len(body) = 0 \/ \E i \in 1..Len(body) : ~IsDigit(body[i])
       THEN [ok |-> FALSE, val |-> 0]
       ELSE [ok |-> TRUE,
             val |-> IF signed /\ s[1] = "-" THEN 0 - AtoiNat(body) ELSE AtoiNat(body)]

\* ------------------------------------------------------------ identities
\* A loaded key: its address, and pos = the line rank at which LoadKeys
\* appended it (the index in the list as originally loaded).
Addrs == 1..MaxWallets

\* address lists up to renaming of addresses: a new address is always the
\* smallest unused one; duplicates are allowed (LoadKeys does not dedupe)
Canonical(s) ==
    \A i \in 1..Len(s) :
        \/ s[i] = 1
        \/ \E j \in 1..(i - 1) : s[j] >= s[i] - 1

AddrLists ==
    {s \in UNION {[1..n -> Addrs] : n \in 1..MaxWallets} : Canonical(s)}

LoadKeys(s) == [i \in 1..Len(s) |-> [addr |-> s[i], pos |-> i - 1]]

\* findOriginalIndex: the first index of a.wallets holding the address
findOriginalIndex(ws, a) ==
    IF \E i \in 1..Len(ws) : ws[i].addr = a
    THEN (CHOOSE i \in 1..Len(ws) :
              /\ ws[i].addr = a
              /\ \A j \in 1..(i - 1) : ws[j].addr # a) - 1
    ELSE -1

\* the orders rand.Shuffle can leave a slice in
ShuffleOrders(s) ==
    {[i \in 1..Len(s) |-> s[p[i]]] :
        p \in {q \in [1..Len(s) -> 1..Len(s)] :
                  \A i, j \in 1..Len(s) : i # j => q[i] # q[j]}}

\* ---------------------------------------------------------------- state
VARIABLES
    wallets,              \* a.wallets (backing array, shuffled in place)
    ResumeEnabled,        \* cfg.State.ResumeEnabled
    ProcessOrderRandom,   \* cfg.Wallets.ProcessOrder == types.OrderRandom
    MaxParallelWallets,   \* cfg.Concurrency.MaxParallelWallets
    store,                \* value stored under last_completed_wallet_index
    readable,             \* GetState reaches the store (FALSE: it fails, not with not-found)
    cancelled,            \* ctx.Done() is closed
    mainPc,               \* position of the main goroutine
    keys,                 \* keysToProcess
    loadedIndex,          \* lastCompletedIndex of prepareWalletsToProcess
    shuffled,             \* prepareWalletsToProcess ran rand.Shuffle
    numWorkers,           \* numWorkers handed to runParallel
    seqI,                 \* loop index of runSequentially / runParallel
    lastCompletedIndex,   \* lastCompletedIndex of runSequentially
    w,                    \* per list position: state of its processing
    semaphore,            \* tokens in the semaphore channel
    wg,                   \* a.wg counter
    resultsChan,          \* buffered results channel
    aggPc,                \* position of the aggregation goroutine
    processedCount,       \* handleParallelResults.processedCount
    highestCompletedIndex,\* handleParallelResults.highestCompletedIndex
    pendingSaves,         \* fire-and-forget SetState goroutines not yet run
    writes,               \* SetState calls applied so far, in order
    storeCalls,           \* the kinds of call made on the state store so far
    cfgTasks,             \* cfg.Tasks: per entry, enabled and registered in the catalog
    maxAttempts,          \* cfg.Delay.BetweenRetries.Attempts
    AfterError,           \* cfg.Delay.AfterError (Min and Max)
    pPc,                  \* position of Processor.Process
    selectedTasks,        \* selectedTasks of Process
    taskIndex,            \* loop index of Process (from 1)
    attempt,              \* attempt of ExecuteTaskWithRetries
    taskErr,              \* taskErr of ExecuteTaskWithRetries
    finalError,           \* finalError of Process
    pResult,              \* what Process returned
    prep,                 \* per selected task: how prepareTask ended
    runs,                 \* per selected task: results of runner.Run, in order
    execRes,              \* per selected task: what ExecuteTaskWithRetries returned
    waitRace,             \* ctx.Done() was already closed when the last wait began
    network,              \* per selected task: taskEntry.Network as getEvmClientForTask saw it
    client,               \* per selected task: the EVM client handed to its runner
    txLog,                \* records handed to txLogger.LogTransaction, in order
    walletErr,            \* what processSingleWalletSequentially returned
    ExplicitTaskSequence, \* cfg.Actions.ExplicitTaskSequence
    ActionsMin,           \* cfg.Actions.ActionsPerAccount.Min
    ActionsMax,           \* cfg.Actions.ActionsPerAccount.Max
    TaskOrderSequential,  \* cfg.Actions.TaskOrder == types.TaskOrderSequential
    selPc,                \* position of Selector.SelectTasks
    numTasksToSelect,     \* numTasksToSelect of SelectTasks
    picks,                \* the draws of SelectTasks, as indices into availableTasks
    selResult,            \* the slice SelectTasks returned
    selErr                \* the error SelectTasks returned

vars == <<wallets, ResumeEnabled, ProcessOrderRandom, MaxParallelWallets,
          store, readable, cancelled, mainPc, keys, loadedIndex, shuffled, numWorkers,
          seqI, lastCompletedIndex, w, semaphore, wg, resultsChan, aggPc,
          processedCount, highestCompletedIndex, pendingSaves, writes, storeCalls,
          cfgTasks, maxAttempts, AfterError, network, pPc, selectedTasks, taskIndex, attempt,
          taskErr, finalError, pResult, prep, runs, execRes, waitRace, network, client,
          txLog, walletErr, ExplicitTaskSequence, ActionsMin, ActionsMax, TaskOrderSequential,
          selPc, numTasksToSelect, picks, selResult, selErr>>

\* the state of one Selector.SelectTasks call
selVars == <<ExplicitTaskSequence, ActionsMin, ActionsMax, TaskOrderSequential,
             selPc, numTasksToSelect, picks, selResult, selErr>>

\* the state of one Processor.Process call
procVars == <<cfgTasks, maxAttempts, AfterError, network, pPc, selectedTasks, taskIndex, attempt,
              taskErr, finalError, pResult, prep, runs, execRes, waitRace,
              client, txLog, walletErr, selVars>>

cfgVars == <<ResumeEnabled, ProcessOrderRandom, MaxParallelWallets, readable>>
parVars == <<semaphore, wg, resultsChan, aggPc, processedCount,
             highestCompletedIndex, pendingSaves>>

\* configured max_parallel_wallets: non-positive, one, two, and more than
\* there are identities
WorkerCounts == {0, 1, 2, MaxParWallets + 1}

\* no key occurs twice in the key file
DistinctAddrs(ws) == \A i, j \in 1..Len(ws) : i # j => ws[i].addr # ws[j].addr

\* identity lists run with more than one worker: every list of up to
\* MaxParWallets identities, and the list of MaxParWallets + 1 distinct
\* identities (run with two workers in load order, so that identities
\* outnumber the semaphore slots)
ParallelInput(ws) ==
    \/ Len(ws) <= MaxParWallets
    \/ Len(ws) = MaxParWallets + 1 /\ DistinctAddrs(ws)

\* values a previous run (or an operator) can have left under the key
StoredValues ==
    {NotFound, Stored(<<"x">>)} \cup {Stored(Itoa(k)) : k \in 0..MaxWallets}

\* no Selector.SelectTasks call is looked into
SelIdle ==
    /\ ExplicitTaskSequence = <<>>
    /\ ActionsMin = 0
    /\ ActionsMax = 0
    /\ TaskOrderSequential = TRUE
    /\ selPc = "idle"
    /\ numTasksToSelect = 0
    /\ picks = <<>>
    /\ selResult = <<>>
    /\ selErr = "none"

\* no Processor.Process call is looked into
ProcIdle ==
    /\ cfgTasks = <<>>
    /\ maxAttempts = 0
    /\ AfterError = [Min |-> 0, Max |-> 0]
    /\ pPc = "idle"
    /\ selectedTasks = <<>>
    /\ taskIndex = 0
    /\ attempt = 0
    /\ taskErr = Nil
    /\ finalError = Nil
    /\ pResult = "none"
    /\ prep = <<>>
    /\ runs = <<>>
    /\ execRes = <<>>
    /\ waitRace = FALSE
    /\ network = <<>>
    /\ client = <<>>
    /\ txLog = <<>>
    /\ walletErr = "none"
    /\ SelIdle

Init ==
    /\ wallets \in {LoadKeys(s) : s \in AddrLists}
    /\ ResumeEnabled \in BOOLEAN
    /\ ProcessOrderRandom \in BOOLEAN
    /\ MaxParallelWallets \in WorkerCounts
    /\ (MaxParallelWallets > 1 => ParallelInput(wallets))
    /\ store \in StoredValues
    /\ readable \in BOOLEAN
    /\ (~ResumeEnabled \/ ~readable => store = Stored(Itoa(1)))
    /\ (~ResumeEnabled => readable)
    \* an unparsable value and a failing read are explored in sequential mode
    /\ (MaxParallelWallets > 1 => readable /\ store # Stored(<<"x">>))
    /\ (MaxParallelWallets > 1 /\ Len(wallets) > MaxParWallets =>
            MaxParallelWallets = 2 /\ ~ProcessOrderRandom)
    \* a key file with a repeated key is shuffled in sequential mode only
    /\ (MaxParallelWallets > 1 /\ ProcessOrderRandom => DistinctAddrs(wallets))
    /\ cancelled = FALSE
    /\ mainPc = "prepare"
    /\ keys = <<>>
    /\ loadedIndex = -1
    /\ shuffled = FALSE
    /\ numWorkers = 0
    /\ seqI = 0
    /\ lastCompletedIndex = -1
    /\ w = <<>>
    /\ semaphore = 0
    /\ wg = 0
    /\ resultsChan = <<>>
    /\ aggPc = "none"
    /\ processedCount = 0
    /\ highestCompletedIndex = -1
    /\ pendingSaves = {}
    /\ writes = <<>>
    /\ storeCalls = {}
    /\ ProcIdle

\* ------------------------------------------------------------ state store
\* a value that does not parse is taken as the index 0
M_LoadIndex(requireNonEmpty) ==
    IF ~readable \/ ~store.found THEN -1
    ELSE IF requireNonEmpty /\ store.value = <<>> THEN -1
    ELSE Atoi(store.value).val

\* GetState followed by the caller's strconv.Atoi: the index the caller
\* ends up with (-1 on not-found, on a read failure, on a parse failure)
LoadIndex(requireNonEmpty) ==
    IF ~readable \/ ~store.found THEN -1
    ELSE IF requireNonEmpty /\ store.value = <<>> THEN -1
    ELSE IF Atoi(store.value).ok THEN Atoi(store.value).val ELSE -1

M_ReadsState(resume) == TRUE

\* if a.cfg.State.ResumeEnabled { ... GetState ... }
ReadsState(resume) == resume

\* the index a caller starts from, and the calls made after its load
LoadedIndex(requireNonEmpty) ==
    IF ReadsState(ResumeEnabled) THEN LoadIndex(requireNonEmpty) ELSE -1

AfterLoad(calls) ==
    IF ReadsState(ResumeEnabled) THEN calls \cup {"GetState"} ELSE calls

\* ------------------------------------------------ prepareWalletsToProcess
\* the slice of a.wallets the run starts from
M_ResumeSlice(ws, last) ==
    IF last >= 0
    THEN IF last < Len(ws) THEN SubSeq(ws, last + 1, Len(ws)) ELSE <<>>
    ELSE ws

ResumeSlice(ws, last) ==
    IF last >= 0
    THEN IF last + 1 < Len(ws) THEN SubSeq(ws, last + 2, Len(ws)) ELSE <<>>
    ELSE ws

M_ShouldShuffle(random, resume, last) == random

ShouldShuffle(random, resume, last) ==
    random /\ ~(resume /\ last >= 0)

Prepare ==
    /\ mainPc = "prepare"
    /\ LET last == LoadedIndex(FALSE)
           processed == ResumeSlice(wallets, last)
           doShuffle == ShouldShuffle(ProcessOrderRandom, ResumeEnabled, last)
                        /\ Len(processed) > 1
       IN /\ loadedIndex' = last
          /\ shuffled' = doShuffle
          /\ IF doShuffle
             THEN \E p \in ShuffleOrders(processed) :
                     \* processedWallets aliases a.wallets: shuffled in place
                     /\ keys' = p
                     /\ wallets' = SubSeq(wallets, 1, Len(wallets) - Len(p)) \o p
             ELSE /\ keys' = processed
                  /\ wallets' = wallets
    /\ w' = [i \in 1..Len(keys') |-> [st |-> "idle", idx |-> -1, err |-> "none"]]
    /\ mainPc' = "run"
    /\ storeCalls' = AfterLoad(storeCalls)
    /\ UNCHANGED <<cfgVars, procVars, store, cancelled, numWorkers, seqI,
                   lastCompletedIndex, parVars, writes>>

\* ------------------------------------------------- Run / runProcessing
IsSequential(n) == n <= 0 \/ n = 1

EffectiveWorkers(n, total) ==
    IF n <= 0 THEN 1
    ELSE IF n = 1 THEN 1
    ELSE IF n > total THEN total ELSE n

RunProcessing ==
    /\ mainPc = "run"
    /\ IF Len(keys) = 0
       THEN /\ mainPc' = "wait"
            /\ UNCHANGED numWorkers
       ELSE /\ numWorkers' = EffectiveWorkers(MaxParallelWallets, Len(keys))
            /\ mainPc' = IF IsSequential(MaxParallelWallets)
                         THEN "seqLoad" ELSE "parSetup"
    /\ UNCHANGED <<wallets, cfgVars, storeCalls, procVars, store, cancelled, keys, loadedIndex,
                   shuffled, seqI, lastCompletedIndex, w, parVars, writes>>

\* what proc.Process(ctx) can return to the orchestrator
ProcessResults == {Nil, TaskErr} \cup (IF cancelled THEN {CtxErr} ELSE {})

\* --------------------------------------------------------- runSequentially
SeqLoadState ==
    /\ mainPc = "seqLoad"
    /\ lastCompletedIndex' = LoadedIndex(TRUE)
    /\ storeCalls' = AfterLoad(storeCalls)
    /\ seqI' = 1
    /\ mainPc' = "seqLoop"
    /\ UNCHANGED <<wallets, cfgVars, procVars, store, cancelled, keys, loadedIndex,
                   shuffled, numWorkers, w, parVars, writes>>

\* the loop moves on to the next key, or falls out of the loop
SeqAdvance ==
    /\ seqI' = seqI + 1
    /\ mainPc' = IF seqI + 1 > Len(keys) THEN "wait" ELSE "seqLoop"

SeqSkips(resume, idx, last) == resume /\ idx <= last

M_SeqHaltsOn(res) == res = CtxErr

\* if err != nil { return }: any error of a wallet ends the sequential run
SeqHaltsOn(res) == res # Nil

SeqIterate ==
    /\ mainPc = "seqLoop"
    /\ LET idx == findOriginalIndex(wallets, keys[seqI].addr)
       IN IF idx = -1 \/ SeqSkips(ResumeEnabled, idx, lastCompletedIndex)
          THEN /\ SeqAdvance
               /\ UNCHANGED w
          ELSE IF cancelled
          THEN /\ mainPc' = "wait"
               /\ UNCHANGED <<seqI, w>>
          ELSE /\ w' = [w EXCEPT ![seqI] = [st |-> "proc", idx |-> idx, err |-> "none"]]
               /\ mainPc' = "seqProc"
               /\ UNCHANGED seqI
    /\ UNCHANGED <<wallets, cfgVars, storeCalls, procVars, store, cancelled, keys, loadedIndex,
                   shuffled, numWorkers, lastCompletedIndex, parVars, writes>>

\* processSingleWalletSequentially from the return of proc.Process on, and
\* the rest of the loop body up to the inter-wallet delay
SeqProcessReturn ==
    /\ mainPc = "seqProc"
    /\ \E res \in ProcessResults :
        /\ w' = [w EXCEPT ![seqI] = [st |-> "done", idx |-> @.idx, err |-> res]]
        /\ IF ~SeqHaltsOn(res)
           THEN /\ IF res = Nil /\ ResumeEnabled
                   THEN /\ storeCalls' = storeCalls \cup {"SetState"}
                        /\ \E setOk \in BOOLEAN :
                             IF setOk
                             THEN /\ store' = Stored(Itoa(w[seqI].idx))
                                  /\ writes' = Append(writes,
                                         [val |-> w[seqI].idx, pos |-> keys[seqI].pos])
                             ELSE UNCHANGED <<store, writes>>
                   ELSE UNCHANGED <<store, writes, storeCalls>>
                /\ IF seqI < Len(keys)
                   THEN mainPc' = "seqDelay" /\ UNCHANGED seqI
                   ELSE SeqAdvance
           ELSE /\ mainPc' = "wait"
                /\ UNCHANGED <<store, writes, storeCalls, seqI>>
    /\ UNCHANGED <<wallets, cfgVars, procVars, cancelled, keys, loadedIndex, shuffled,
                   numWorkers, lastCompletedIndex, parVars>>

\* the inter-wallet delay: it is zero or elapses, or the context is cancelled
SeqDelayEnd ==
    /\ mainPc = "seqDelay"
    /\ \/ SeqAdvance
       \/ cancelled /\ mainPc' = "wait" /\ UNCHANGED seqI
    /\ UNCHANGED <<wallets, cfgVars, storeCalls, procVars, store, cancelled, keys, loadedIndex,
                   shuffled, numWorkers, lastCompletedIndex, w, parVars, writes>>

\* ------------------------------------------------------------- runParallel
SemaphoreFill(n) == n

M_SlotFree(sem) == TRUE

\* case <-semaphore: a token can be received
SlotFree(sem) == sem > 0

ParSetup ==
    /\ mainPc = "parSetup"
    /\ semaphore' = SemaphoreFill(numWorkers)
    /\ resultsChan' = <<>>
    /\ wg' = wg + 1
    /\ aggPc' = "load"
    /\ seqI' = 1
    /\ mainPc' = "parLoop"
    /\ UNCHANGED <<wallets, cfgVars, storeCalls, procVars, store, cancelled, keys, loadedIndex,
                   shuffled, numWorkers, lastCompletedIndex, w, processedCount,
                   highestCompletedIndex, pendingSaves, writes>>

\* loop head: findOriginalIndex and the non-blocking ctx.Done() check
ParLoopHead ==
    /\ mainPc = "parLoop"
    /\ aggPc # "load"
    /\ IF findOriginalIndex(wallets, keys[seqI].addr) = -1
       THEN SeqAdvance
       ELSE /\ mainPc' = IF cancelled THEN "wait" ELSE "parAcquire"
            /\ UNCHANGED seqI
    /\ UNCHANGED <<wallets, cfgVars, storeCalls, procVars, store, cancelled, keys, loadedIndex,
                   shuffled, numWorkers, lastCompletedIndex, w, parVars, writes>>

\* select { case <-semaphore: launch; case <-ctx.Done(): stop launching }
ParAcquire ==
    /\ mainPc = "parAcquire"
    /\ \/ /\ SlotFree(semaphore)
          /\ semaphore' = semaphore - 1
          /\ wg' = wg + 1
          /\ w' = [w EXCEPT ![seqI] =
                     [st |-> "started",
                      idx |-> findOriginalIndex(wallets, keys[seqI].addr),
                      err |-> "none"]]
          /\ seqI' = seqI + 1
          /\ mainPc' = IF seqI + 1 > Len(keys) THEN "wait" ELSE "parLoop"
       \/ /\ cancelled
          /\ mainPc' = "wait"
          /\ UNCHANGED <<semaphore, wg, w, seqI>>
    /\ UNCHANGED <<wallets, cfgVars, storeCalls, procVars, store, cancelled, keys, loadedIndex,
                   shuffled, numWorkers, lastCompletedIndex, resultsChan, aggPc,
                   processedCount, highestCompletedIndex, pendingSaves, writes>>

\* ----------------------------------------------------- processWalletWorker
workerFrame == <<wallets, cfgVars, storeCalls, procVars, store, cancelled, mainPc, keys, loadedIndex,
                 shuffled, numWorkers, seqI, lastCompletedIndex, aggPc,
                 processedCount, highestCompletedIndex, pendingSaves, writes>>

\* the worker starts processing without looking at the context
M_WorkerBegin(p) ==
    /\ w[p].st = "started"
    /\ w' = [w EXCEPT ![p] = [st |-> "proc", idx |-> @.idx, err |-> "none"]]
    /\ UNCHANGED <<workerFrame, semaphore, wg, resultsChan>>

WorkerBegin(p) ==
    /\ w[p].st = "started"
    /\ w' = [w EXCEPT ![p] =
               IF cancelled
               THEN [st |-> "send", idx |-> @.idx, err |-> CtxErr]
               ELSE [st |-> "proc", idx |-> @.idx, err |-> "none"]]
    /\ UNCHANGED <<workerFrame, semaphore, wg, resultsChan>>

WorkerProcessReturn(p) ==
    /\ mainPc # "seqProc"
    /\ w[p].st = "proc"
    /\ \E res \in ProcessResults :
        w' = [w EXCEPT ![p] =
                [st |-> IF res = Nil THEN "delay" ELSE "send",
                 idx |-> @.idx, err |-> res]]
    /\ UNCHANGED <<workerFrame, semaphore, wg, resultsChan>>

\* the post-success delay is zero, elapses, or is interrupted by ctx.Done()
WorkerDelayEnd(p) ==
    /\ w[p].st = "delay"
    /\ w' = [w EXCEPT ![p].st = "send"]
    /\ UNCHANGED <<workerFrame, semaphore, wg, resultsChan>>

\* the results channel holds one result at most
M_ResultsCapacity(ks) == IF Len(ks) > 1 THEN 1 ELSE Len(ks)

\* resultsChan := make(chan result, len(keysToProcess))
ResultsCapacity(ks) == Len(ks)

\* only a successful worker reports its result
M_WorkerSendResult(p) ==
    /\ w[p].st = "send"
    /\ Len(resultsChan) < ResultsCapacity(keys)
    /\ resultsChan' = IF w[p].err = Nil
                      THEN Append(resultsChan,
                               [originalIndex |-> w[p].idx, err |-> w[p].err,
                                pos |-> keys[p].pos])
                      ELSE resultsChan
    /\ w' = [w EXCEPT ![p].st = "release"]
    /\ UNCHANGED <<workerFrame, semaphore, wg>>

\* deferred: resultsChan <- result{originalIndex, processErr}
WorkerSendResult(p) ==
    /\ w[p].st = "send"
    /\ Len(resultsChan) < ResultsCapacity(keys)
    /\ resultsChan' = Append(resultsChan,
           [originalIndex |-> w[p].idx, err |-> w[p].err, pos |-> keys[p].pos])
    /\ w' = [w EXCEPT ![p].st = "release"]
    /\ UNCHANGED <<workerFrame, semaphore, wg>>

SlotsReturned == 1

\* deferred: semaphore <- struct{}{}; wg.Done()
WorkerRelease(p) ==
    /\ w[p].st = "release"
    /\ semaphore + SlotsReturned <= numWorkers
    /\ semaphore' = semaphore + SlotsReturned
    /\ wg' = wg - 1
    /\ w' = [w EXCEPT ![p].st = "done"]
    /\ UNCHANGED <<workerFrame, resultsChan>>

\* --------------------------------------------------- handleParallelResults
AggLoadState ==
    /\ aggPc = "load"
    /\ highestCompletedIndex' = LoadedIndex(TRUE)
    /\ storeCalls' = AfterLoad(storeCalls)
    /\ aggPc' = "loop"
    /\ UNCHANGED <<wallets, cfgVars, procVars, store, cancelled, mainPc, keys,
                   loadedIndex, shuffled, numWorkers, seqI, lastCompletedIndex,
                   w, semaphore, wg, resultsChan, processedCount, pendingSaves, writes>>

M_IsNewHighest(res, highest) == res.originalIndex > highest

\* every success counts as a new highest index
M_AnySuccessIsHighest(res, highest) == res.err = Nil

IsNewHighest(res, highest) == res.err = Nil /\ res.originalIndex > highest

AggReceive ==
    /\ aggPc = "loop"
    /\ Len(resultsChan) > 0
    /\ LET res == Head(resultsChan)
       IN /\ resultsChan' = Tail(resultsChan)
          /\ processedCount' = processedCount + 1
          /\ IF IsNewHighest(res, highestCompletedIndex)
             THEN /\ highestCompletedIndex' = res.originalIndex
                  /\ IF ResumeEnabled
                     THEN pendingSaves' = pendingSaves \cup
                              {[val |-> res.originalIndex, pos |-> res.pos]}
                     ELSE UNCHANGED pendingSaves
             ELSE UNCHANGED <<highestCompletedIndex, pendingSaves>>
          /\ IF processedCount + 1 >= Len(keys)
             THEN aggPc' = "done" /\ wg' = wg - 1
             ELSE UNCHANGED <<aggPc, wg>>
    /\ UNCHANGED <<wallets, cfgVars, storeCalls, procVars, store, cancelled, mainPc, keys,
                   loadedIndex, shuffled, numWorkers, seqI, lastCompletedIndex,
                   w, semaphore, writes>>

\* the aggregation loop has no ctx.Done() case: it ends by count only
M_AggCancelled ==
    /\ aggPc = "loop"
    /\ cancelled
    /\ processedCount >= Len(keys)
    /\ aggPc' = "done"
    /\ wg' = wg - 1
    /\ UNCHANGED <<wallets, cfgVars, storeCalls, procVars, store, cancelled, mainPc, keys,
                   loadedIndex, shuffled, numWorkers, seqI, lastCompletedIndex,
                   w, semaphore, resultsChan, processedCount,
                   highestCompletedIndex, pendingSaves, writes>>

\* case <-ctx.Done(): return
AggCancelled ==
    /\ aggPc = "loop"
    /\ cancelled
    /\ aggPc' = "done"
    /\ wg' = wg - 1
    /\ UNCHANGED <<wallets, cfgVars, storeCalls, procVars, store, cancelled, mainPc, keys,
                   loadedIndex, shuffled, numWorkers, seqI, lastCompletedIndex,
                   w, semaphore, resultsChan, processedCount,
                   highestCompletedIndex, pendingSaves, writes>>

\* one fire-and-forget goroutine runs its SetState (or fails, and logs)
SaveState ==
    /\ mainPc # "exited"
    /\ \E s \in pendingSaves, setOk \in BOOLEAN :
        /\ pendingSaves' = pendingSaves \ {s}
        /\ storeCalls' = storeCalls \cup {"SetState"}
        /\ IF setOk
           THEN /\ store' = Stored(Itoa(s.val))
                /\ writes' = Append(writes, s)
           ELSE UNCHANGED <<store, writes>>
    /\ UNCHANGED <<wallets, cfgVars, procVars, cancelled, mainPc, keys, loadedIndex,
                   shuffled, numWorkers, seqI, lastCompletedIndex, w, semaphore,
                   wg, resultsChan, aggPc, processedCount,
                   highestCompletedIndex>>

\* -------------------------------------------------------------------- main
\* wg.Wait() returns and main returns: the process ends
MainWait ==
    /\ mainPc = "wait"
    /\ wg = 0
    /\ mainPc' = "exited"
    /\ UNCHANGED <<wallets, cfgVars, storeCalls, procVars, store, cancelled, keys, loadedIndex,
                   shuffled, numWorkers, seqI, lastCompletedIndex, w, parVars,
                   writes>>

\* gracefulShutdown: a termination signal cancels the context
Cancel ==
    /\ ~cancelled
    /\ mainPc # "exited"
    /\ cancelled' = TRUE
    /\ UNCHANGED <<wallets, cfgVars, storeCalls, procVars, store, mainPc, keys, loadedIndex, shuffled,
                   numWorkers, seqI, lastCompletedIndex, w, parVars, writes>>

\* ------------------------------------------------------------------ Spec
Next ==
    \/ Prepare
    \/ RunProcessing
    \/ SeqLoadState
    \/ SeqIterate
    \/ SeqProcessReturn
    \/ SeqDelayEnd
    \/ ParSetup
    \/ ParLoopHead
    \/ ParAcquire
    \/ \E p \in 1..Len(w) : WorkerBegin(p)
    \/ \E p \in 1..Len(w) : WorkerProcessReturn(p)
    \/ \E p \in 1..Len(w) : WorkerDelayEnd(p)
    \/ \E p \in 1..Len(w) : WorkerSendResult(p)
    \/ \E p \in 1..Len(w) : WorkerRelease(p)
    \/ AggLoadState
    \/ AggReceive
    \/ AggCancelled
    \/ SaveState
    \/ MainWait
    \/ Cancel

Spec == Init /\ [][Next]_vars

\* ------------------------------------------------------- processor errors
ErrNoValidTasksSelected == "selector: no valid and active tasks selected"
ErrTaskConstructorNotFound == "task constructor not found in registry"
ClientErr == "failed to connect to any provided EVM node"
\* the client error wraps the context.DeadlineExceeded of NewClient's own
\* dial or chain-id timeout; the scope itself is not cancelled
DeadlineErr == "failed to connect: context deadline exceeded"

\* errors.Is(err, context.Canceled) || errors.Is(err, context.DeadlineExceeded)
IsContextError(e) == e \in {CtxErr, DeadlineErr}

\* ------------------------------------------------------------ SelectTasks
\* the enabled entries of cfg.Tasks in configuration order (every enabled
\* task is taken, task_order sequential); the catalog is not consulted
SelectTasks(ts) ==
    SelectSeq([i \in 1..Len(ts) |->
                  [name |-> i, enabled |-> ts[i].enabled,
                   registered |-> ts[i].registered]],
              LAMBDA t : t.enabled)

TaskConfigs ==
    UNION {[1..n -> [enabled : BOOLEAN, registered : BOOLEAN]] : n \in 0..MaxTasks}

\* ------------------------------------------------- number of tasks to select
M_RequestedRange(mn, mx) ==
    [min |-> IF mn < 0 THEN 0 ELSE mn, max |-> IF mx < 0 THEN 0 ELSE mx]

\* minRequested and maxRequested after the two corrections of negative
\* values and the correction of min > max
RequestedRange(mn, mx) ==
    LET lo == IF mn < 0 THEN 0 ELSE mn
        hi == IF mx < 0 THEN 0 ELSE mx
    IN [min |-> lo, max |-> IF lo > hi THEN lo ELSE hi]

\* the values utils.RandomIntInRange(min, max) can return
RandomIntInRange(mn, mx) ==
    LET lo == IF mn > mx THEN mx ELSE mn
        hi == IF mn > mx THEN mn ELSE mx
    IN IF lo = hi THEN {lo} ELSE lo..hi

\* the values numTasksToSelect can take
TaskCounts(mn, mx) ==
    LET r == RequestedRange(mn, mx)
    IN IF r.max > 0 \/ r.min > 0 THEN RandomIntInRange(r.min, r.max) ELSE {0}

\* ---------------------------------------------------------- Process setup
OrchIdle ==
    /\ wallets = LoadKeys(<<1>>)
    /\ ProcessOrderRandom = FALSE
    /\ MaxParallelWallets = 1
    /\ store = NotFound
    /\ readable = TRUE
    /\ mainPc = "prepare"
    /\ keys = <<>>
    /\ loadedIndex = -1
    /\ shuffled = FALSE
    /\ numWorkers = 0
    /\ seqI = 0
    /\ lastCompletedIndex = -1
    /\ w = <<>>
    /\ semaphore = 0
    /\ wg = 0
    /\ resultsChan = <<>>
    /\ aggPc = "none"
    /\ processedCount = 0
    /\ highestCompletedIndex = -1
    /\ pendingSaves = {}
    /\ writes = <<>>
    /\ storeCalls = {}

orchVars == <<wallets, cfgVars, storeCalls, store, mainPc, keys, loadedIndex, shuffled,
              numWorkers, seqI, lastCompletedIndex, w, parVars, writes>>

\* the after_error ranges looked into: no delay, and a delay with a zero or a
\* positive lower bound
AfterErrorRanges ==
    {[Min |-> 0, Max |-> 0], [Min |-> 0, Max |-> 1], [Min |-> 1, Max |-> 1]}

ProcInit ==
    /\ OrchIdle
    /\ ResumeEnabled \in BOOLEAN
    /\ cancelled = FALSE
    /\ cfgTasks \in TaskConfigs
    /\ maxAttempts \in -1..MaxAttempts
    /\ AfterError \in AfterErrorRanges
    \* the after-error delay is looked into with resume disabled, and a positive
    \* lower bound of its range with a single attempt
    /\ (AfterError # [Min |-> 0, Max |-> 0] => ~ResumeEnabled)
    /\ (AfterError.Min > 0 => maxAttempts = 1)
    /\ pPc = "select"
    /\ selectedTasks = <<>>
    /\ taskIndex = 0
    /\ attempt = 0
    /\ taskErr = Nil
    /\ finalError = Nil
    /\ pResult = "none"
    /\ prep = <<>>
    /\ runs = <<>>
    /\ execRes = <<>>
    /\ waitRace = FALSE
    /\ network = <<>>
    /\ client = <<>>
    /\ txLog = <<>>
    /\ walletErr = "none"
    \* actions_per_account asks for no task, or for as many as there are enabled
    \* entries; of the selections of that size the one that takes every enabled
    \* entry once is followed
    /\ ActionsMin \in {0, Len(SelectTasks(cfgTasks))}
    /\ ActionsMax = ActionsMin
    /\ ExplicitTaskSequence = <<>>
    /\ TaskOrderSequential = TRUE
    /\ selPc = "idle"
    /\ numTasksToSelect = 0
    /\ picks = <<>>
    /\ selResult = <<>>
    /\ selErr = "none"

\* ---------------------------------------------------------------- Process
\* what Process returns when SelectTasks failed with err
M_SelectionResult(err) == err

SelectionResult(err) == IF err = ErrNoValidTasksSelected THEN Nil ELSE err

M_EmptySelectionResult(final) == ErrNoValidTasksSelected

\* the loop over an empty selectedTasks has no iteration: return finalError
EmptySelectionResult(final) == final

ProcSelect ==
    /\ pPc = "select"
    /\ LET pool == SelectTasks(cfgTasks)
           sel == IF TaskCounts(ActionsMin, ActionsMax) = {0} THEN <<>> ELSE pool
       IN IF Len(pool) = 0
          THEN /\ pResult' = SelectionResult(ErrNoValidTasksSelected)
               /\ pPc' = "returned"
               /\ UNCHANGED <<selectedTasks, taskIndex, prep, runs, execRes, network,
                              client>>
          ELSE IF Len(sel) = 0
          THEN /\ pResult' = EmptySelectionResult(finalError)
               /\ pPc' = "returned"
               /\ UNCHANGED <<selectedTasks, taskIndex, prep, runs, execRes, network,
                              client>>
          ELSE /\ selectedTasks' = sel
               /\ taskIndex' = 1
               /\ prep' = [i \in 1..Len(sel) |-> "none"]
               /\ runs' = [i \in 1..Len(sel) |-> <<>>]
               /\ execRes' = [i \in 1..Len(sel) |-> "none"]
               /\ network' = [i \in 1..Len(sel) |-> "none"]
               /\ client' = [i \in 1..Len(sel) |-> "none"]
               /\ pPc' = "task"
               /\ UNCHANGED pResult
    /\ UNCHANGED <<orchVars, selVars, walletErr, cancelled, cfgTasks, maxAttempts,
                   AfterError, attempt, taskErr, finalError, waitRace, txLog>>

\* if finalError == nil { finalError = err }
M_FirstError(first, err) == err

FirstError(first, err) == IF first = Nil THEN err ELSE first

\* select { case <-ctx.Done(): return ctx.Err(); default: } before a task
M_DoneBeforeTask(done) == FALSE

DoneBeforeTask(done) == done

\* continue: the loop moves to the next task, or ends and Process returns
\* finalError
NextTask(final) ==
    IF taskIndex < Len(selectedTasks)
    THEN /\ taskIndex' = taskIndex + 1
         /\ pPc' = "task"
         /\ UNCHANGED pResult
    ELSE /\ pPc' = "returned"
         /\ pResult' = final
         /\ UNCHANGED taskIndex

\* loop head and the first half of prepareTask: the context check and the
\* registry lookup tasks.NewTask
ProcTaskStart ==
    /\ pPc = "task"
    /\ IF DoneBeforeTask(cancelled)
       THEN /\ pPc' = "returned"
            /\ pResult' = CtxErr
            /\ UNCHANGED <<taskIndex, prep, finalError>>
       ELSE IF ~selectedTasks[taskIndex].registered
       THEN /\ prep' = [prep EXCEPT ![taskIndex] = ErrTaskConstructorNotFound]
            /\ finalError' = FirstError(finalError, ErrTaskConstructorNotFound)
            /\ NextTask(finalError')
       ELSE /\ prep' = [prep EXCEPT ![taskIndex] = "client"]
            /\ pPc' = "client"
            /\ UNCHANGED <<taskIndex, pResult, finalError>>
    /\ UNCHANGED <<orchVars, selVars, walletErr, cancelled, cfgTasks, maxAttempts, AfterError, network, selectedTasks, attempt, taskErr, runs, execRes, waitRace,
                   client, txLog>>

\* taskEntry.Network: the sentinel "any", or the name of an EVM network
Networks == {"any", "evm"}

\* what getEvmClientForTask can return for a network: nil for "any", without
\* a call of evm.NewClient
ClientResults(nw) ==
    IF nw = "any" THEN {Nil}
    ELSE {Nil, ClientErr, DeadlineErr} \cup (IF cancelled THEN {CtxErr} ELSE {})

\* every task is handed a connected client
M_ClientFor(nw) == "open"

\* the client getEvmClientForTask hands out with a nil error: none at all
\* for the network "any", a connected client otherwise
ClientFor(nw) == IF nw = "any" THEN "nil" ELSE "open"

\* getEvmClientForTask returns: the second half of prepareTask and its
\* handling in Process
ProcClientReturn ==
    /\ pPc = "client"
    /\ \E nw \in Networks :
        /\ network' = [network EXCEPT ![taskIndex] = nw]
        /\ \E res \in ClientResults(nw) :
            IF res = Nil
            THEN /\ prep' = [prep EXCEPT ![taskIndex] = "ok"]
                 /\ client' = [client EXCEPT ![taskIndex] = ClientFor(nw)]
                 /\ attempt' = 1
                 /\ pPc' = "run"
                 /\ UNCHANGED <<taskIndex, pResult, finalError>>
            ELSE IF IsContextError(res)
            THEN /\ prep' = [prep EXCEPT ![taskIndex] = res]
                 /\ pPc' = "returned"
                 /\ pResult' = res
                 /\ UNCHANGED <<taskIndex, attempt, finalError, client>>
            ELSE /\ prep' = [prep EXCEPT ![taskIndex] = res]
                 /\ finalError' = FirstError(finalError, res)
                 /\ NextTask(finalError')
                 /\ UNCHANGED <<attempt, client>>
    /\ UNCHANGED <<orchVars, selVars, walletErr, cancelled, cfgTasks, maxAttempts,
                   AfterError, selectedTasks, taskErr, runs, execRes, waitRace, txLog>>

M_ClientAfterTask(c) == c

\* if client != nil { client.Close() }
ClientAfterTask(c) == IF c = "open" THEN "closed" ELSE c

LogErr == "transaction log error"

M_ResultAfterLog(executionErr, logOk) == IF logOk THEN executionErr ELSE LogErr

\* executeAndLogTask logs a failure of LogTransaction and returns executionErr
ResultAfterLog(executionErr, logOk) == executionErr

\* every record is written as a success
M_TxStatus(executionErr) == "success"

\* record.Status: TxStatusFailed if executionErr != nil, else TxStatusSuccess
TxStatus(executionErr) == IF executionErr # Nil THEN "failed" ELSE "success"

\* ExecuteTaskWithRetries has returned execErr: the rest of executeAndLogTask
\* (the client is closed, the record is handed to LogTransaction, which may
\* fail), the bookkeeping of finalError and performInterTaskDelay up to its
\* wait
AfterExecute(execErr) ==
    /\ client' = [client EXCEPT ![taskIndex] = ClientAfterTask(@)]
    /\ \E logOk \in BOOLEAN :
        /\ txLog' = Append(txLog, [task |-> taskIndex, status |-> TxStatus(execErr),
                                   ok |-> logOk])
        /\ execRes' = [execRes EXCEPT ![taskIndex] = ResultAfterLog(execErr, logOk)]
    /\ finalError' = IF execRes'[taskIndex] # Nil
                     THEN FirstError(finalError, execRes'[taskIndex])
                     ELSE finalError
    /\ IF taskIndex < Len(selectedTasks)
       THEN IF cancelled
            THEN /\ pPc' = "returned"
                 /\ pResult' = CtxErr
            ELSE /\ pPc' = "taskDelay"
                 /\ UNCHANGED pResult
       ELSE /\ pPc' = "returned"
            /\ pResult' = finalError'
    /\ UNCHANGED taskIndex

\* ------------------------------------------------- ExecuteTaskWithRetries
M_AttemptsLeft(a, m) == a <= Max(1, m)

\* attempt < maxAttempts, with maxAttempts <= 0 replaced by 1
AttemptsLeft(a, m) == a < Max(1, m)

M_AfterErrorConfigured(r) == TRUE

\* if e.cfg.Delay.AfterError.Min > 0 || e.cfg.Delay.AfterError.Max > 0
AfterErrorConfigured(r) == r.Min > 0 \/ r.Max > 0

\* what runner.Run can return
RunnerResults == {Nil, TaskErr} \cup (IF cancelled THEN {CtxErr} ELSE {})

\* runner.Run returns, and the executor goes on to its next wait or returns
ProcRunReturn ==
    /\ pPc = "run"
    /\ \E res \in RunnerResults :
        /\ runs' = [runs EXCEPT ![taskIndex] = Append(@, res)]
        /\ taskErr' = res
        /\ IF res = Nil
           THEN AfterExecute(Nil) /\ UNCHANGED <<attempt, waitRace>>
           ELSE IF AttemptsLeft(attempt, maxAttempts)
           THEN \* RandomDuration fails: no wait; otherwise the wait begins
                \/ /\ attempt' = attempt + 1
                   /\ UNCHANGED <<pPc, pResult, taskIndex, finalError, execRes,
                                  waitRace, client, txLog>>
                \/ /\ pPc' = "retryWait"
                   /\ waitRace' = cancelled
                   /\ UNCHANGED <<attempt, pResult, taskIndex, finalError, execRes,
                                  client, txLog>>
           ELSE IF ~AfterErrorConfigured(AfterError)
           THEN AfterExecute(res) /\ UNCHANGED <<attempt, waitRace>>
           ELSE \* RandomDuration fails: no wait; otherwise the wait begins
                \/ AfterExecute(res) /\ UNCHANGED <<attempt, waitRace>>
                \/ /\ pPc' = "afterErrorWait"
                   /\ waitRace' = cancelled
                   /\ UNCHANGED <<attempt, pResult, taskIndex, finalError, execRes,
                                  client, txLog>>
    /\ UNCHANGED <<orchVars, selVars, walletErr, cancelled, cfgTasks, maxAttempts, AfterError, network, selectedTasks, prep>>

\* what the executor returns when its wait is cut short by ctx.Done()
M_RetryAbortResult(err) == CtxErr

RetryAbortResult(err) == err

\* select { case <-time.After(d): ; case <-ctx.Done(): return taskErr }
\* A goroutine blocked in select is woken by the first case that becomes
\* ready: the timer case is taken if the context is not cancelled, or if it
\* was cancelled already when the wait began (both cases ready at once).
ProcRetryWaitEnd ==
    /\ pPc = "retryWait"
    /\ \/ /\ ~cancelled \/ waitRace
          /\ attempt' = attempt + 1
          /\ pPc' = "run"
          /\ UNCHANGED <<pResult, taskIndex, finalError, execRes, client, txLog>>
       \/ /\ cancelled
          /\ AfterExecute(RetryAbortResult(taskErr))
          /\ UNCHANGED attempt
    /\ UNCHANGED <<orchVars, selVars, walletErr, cancelled, cfgTasks, maxAttempts, AfterError, network, selectedTasks, taskErr, prep, runs, waitRace>>

\* the wait after the last failed attempt: both cases return taskErr
ProcAfterErrorWaitEnd ==
    /\ pPc = "afterErrorWait"
    /\ AfterExecute(taskErr)
    /\ UNCHANGED <<orchVars, selVars, walletErr, cancelled, cfgTasks, maxAttempts, AfterError, network, selectedTasks, attempt, taskErr, prep, runs, waitRace>>

\* performInterTaskDelay's wait: the delay elapses, or ctx.Done() ends it
ProcTaskDelayEnd ==
    /\ pPc = "taskDelay"
    /\ IF cancelled
       THEN /\ pPc' = "returned"
            /\ pResult' = CtxErr
            /\ UNCHANGED taskIndex
       ELSE /\ taskIndex' = taskIndex + 1
            /\ pPc' = "task"
            /\ UNCHANGED pResult
    /\ UNCHANGED <<orchVars, selVars, walletErr, cancelled, cfgTasks, maxAttempts, AfterError, network, selectedTasks, attempt, taskErr, finalError, prep, runs,
                   execRes, waitRace, client, txLog>>

\* --------------------------------------- processSingleWalletSequentially
\* a failure of SetState is logged; the wallet's result is that of Process
WalletResult(err, setOk) == err

\* proc.Process has returned: on success with resume enabled the wallet's
\* original index is stored (SetState may fail), and err is returned
SingleWalletReturn ==
    /\ pPc = "returned"
    /\ pPc' = "walletDone"
    /\ IF pResult = Nil /\ ResumeEnabled
       THEN \E setOk \in BOOLEAN :
               /\ walletErr' = WalletResult(Nil, setOk)
               /\ storeCalls' = storeCalls \cup {"SetState"}
               /\ IF setOk
                  THEN /\ store' = Stored(Itoa(wallets[1].pos))
                       /\ writes' = Append(writes, [val |-> wallets[1].pos,
                                                    pos |-> wallets[1].pos])
                  ELSE UNCHANGED <<store, writes>>
       ELSE /\ walletErr' = pResult
            /\ UNCHANGED <<store, writes, storeCalls>>
    /\ UNCHANGED <<wallets, cfgVars, mainPc, keys, loadedIndex, shuffled,
                   numWorkers, seqI, lastCompletedIndex, w, parVars, selVars,
                   cancelled, cfgTasks, maxAttempts, AfterError, network, selectedTasks, taskIndex,
                   attempt, taskErr, finalError, pResult, prep, runs, execRes,
                   waitRace, client, txLog>>

ProcNext ==
    \/ ProcSelect
    \/ ProcTaskStart
    \/ ProcClientReturn
    \/ ProcRunReturn
    \/ ProcRetryWaitEnd
    \/ ProcAfterErrorWaitEnd
    \/ ProcTaskDelayEnd
    \/ SingleWalletReturn
    \/ Cancel

ProcSpec == ProcInit /\ [][ProcNext]_vars

\* ---------------------------------------------------- Selector.SelectTasks
\* The i-th entry of cfg.Tasks: its Name, and idx = its place in cfg.Tasks.
\* Names are numbers from 1; the name 0 is a name with no entry in cfg.Tasks.
TaskEntry(ts, i) ==
    [name |-> ts[i].name, idx |-> i, enabled |-> ts[i].enabled,
     registered |-> ts[i].registered]

\* the names of n entries: pairwise distinct, or the last entry repeats the
\* name of the first (nothing in config.Validate forbids a repeated name)
TaskNames(n) ==
    {[i \in 1..n |-> i]} \cup
    (IF n >= 2 THEN {[i \in 1..n |-> IF i = n THEN 1 ELSE i]} ELSE {})

\* RegisterTasksFromConfig registers the constructor of a name once, for an
\* enabled entry; a second enabled entry of a registered name makes
\* MustRegisterConstructor panic at startup
SelTaskConfigs ==
    {ts \in UNION {{[i \in 1..n |-> [name |-> nm[i], enabled |-> f[i].enabled,
                                     registered |-> f[i].registered]] :
                        nm \in TaskNames(n),
                        f \in [1..n -> [enabled : BOOLEAN, registered : BOOLEAN]]} :
                      n \in 0..MaxCfgTasks} :
        \A i \in 1..Len(ts) :
            /\ \A j \in 1..Len(ts) :
                   ts[j].name = ts[i].name => ts[j].registered = ts[i].registered
            /\ ts[i].registered =>
                   Cardinality({j \in 1..Len(ts) :
                                   ts[j].name = ts[i].name /\ ts[j].enabled}) = 1}

ExplicitSequences(ts) ==
    UNION {[1..n -> 0..Len(ts)] : n \in 0..MaxSeqLen}

\* the count and order settings an explicit sequence is combined with
ExplicitModeSettings ==
    {<<0, 0, TRUE>>, <<1, MaxCount, FALSE>>, <<MaxCount, -1, TRUE>>}

SelInit ==
    /\ OrchIdle
    /\ ResumeEnabled = FALSE
    /\ cancelled = FALSE
    /\ cfgTasks \in SelTaskConfigs
    /\ maxAttempts = 0
    /\ AfterError = [Min |-> 0, Max |-> 0]
    /\ pPc = "idle"
    /\ selectedTasks = <<>>
    /\ taskIndex = 0
    /\ attempt = 0
    /\ taskErr = Nil
    /\ finalError = Nil
    /\ pResult = "none"
    /\ prep = <<>>
    /\ runs = <<>>
    /\ execRes = <<>>
    /\ waitRace = FALSE
    /\ network = <<>>
    /\ client = <<>>
    /\ txLog = <<>>
    /\ walletErr = "none"
    /\ ExplicitTaskSequence \in ExplicitSequences(cfgTasks)
    /\ ActionsMin \in -1..MaxCount
    /\ ActionsMax \in -1..MaxCount
    /\ TaskOrderSequential \in BOOLEAN
    /\ (Len(ExplicitTaskSequence) > 0 =>
            <<ActionsMin, ActionsMax, TaskOrderSequential>> \in ExplicitModeSettings)
    /\ selPc = "call"
    /\ numTasksToSelect = 0
    /\ picks = <<>>
    /\ selResult = <<>>
    /\ selErr = "none"

M_InTaskMap(ts, i, n) == ts[i].name = n

\* taskMap[taskCfg.Name] = taskCfg, for the enabled entries: the i-th entry
\* is put into the map under the name n
InTaskMap(ts, i, n) == ts[i].name = n /\ ts[i].enabled

\* taskCfg, exists := taskMap[taskName]
InMap(ts, n) == \E i \in 1..Len(ts) : InTaskMap(ts, i, n)

\* a later entry of the same name replaces the earlier one in the map
MapIndex(ts, n) ==
    CHOOSE i \in 1..Len(ts) :
        /\ InTaskMap(ts, i, n)
        /\ \A j \in (i + 1)..Len(ts) : ~InTaskMap(ts, j, n)

\* the explicit-sequence branch: names not in taskMap are passed over
ExplicitSelection(ts, seq) ==
    LET hits == SelectSeq(seq, LAMBDA n : InMap(ts, n))
    IN [i \in 1..Len(hits) |-> TaskEntry(ts, MapIndex(ts, hits[i]))]

\* availableTasks: the enabled entries of cfg.Tasks in configuration order
AvailableTasks(ts) ==
    SelectSeq([i \in 1..Len(ts) |-> TaskEntry(ts, i)], LAMBDA t : t.enabled)

M_NoTasksAvailable(pool) == FALSE

\* if len(availableTasks) == 0 { return nil, ErrNoValidTasksSelected }
NoTasksAvailable(pool) == Len(pool) = 0

M_Draws(n, size) ==
    {d \in [1..n -> 1..size] : \A i, j \in 1..n : i # j => d[i] # d[j]}

\* n calls of rand.Intn(len(availableTasks))
Draws(n, size) == [1..n -> 1..size]

\* originalIndex[taskCfg.Name] = idx over all of cfg.Tasks: the place of the
\* last entry that carries the name
originalIndex(ts, n) ==
    CHOOSE i \in 1..Len(ts) :
        /\ ts[i].name = n
        /\ \A j \in (i + 1)..Len(ts) : ts[j].name # n

\* sort.SliceStable(selectedTasks, by originalIndex of the name): the entries
\* with the keys 1..k in the order of their keys, entries of one key in draw
\* order
RECURSIVE SortedUpTo(_, _, _)
SortedUpTo(ts, s, k) ==
    IF k = 0 THEN <<>>
    ELSE SortedUpTo(ts, s, k - 1)
             \o SelectSeq(s, LAMBDA t : originalIndex(ts, t.name) = k)

SortByConfigOrder(ts, s) == SortedUpTo(ts, s, Len(ts))

SelectTasksCall ==
    /\ selPc = "call"
    /\ selPc' = "returned"
    /\ IF Len(ExplicitTaskSequence) > 0
       THEN LET selected == ExplicitSelection(cfgTasks, ExplicitTaskSequence)
            IN /\ selResult' = selected
               /\ selErr' = IF Len(selected) = 0 THEN ErrNoValidTasksSelected ELSE Nil
               /\ UNCHANGED <<numTasksToSelect, picks>>
       ELSE LET availableTasks == AvailableTasks(cfgTasks)
            IN IF NoTasksAvailable(availableTasks)
               THEN /\ selErr' = ErrNoValidTasksSelected
                    /\ UNCHANGED <<selResult, numTasksToSelect, picks>>
               ELSE \E n \in TaskCounts(ActionsMin, ActionsMax) :
                        /\ numTasksToSelect' = n
                        /\ picks' \in Draws(n, Len(availableTasks))
                        /\ LET drawn == [i \in 1..n |-> availableTasks[picks'[i]]]
                           IN selResult' = IF TaskOrderSequential
                                           THEN SortByConfigOrder(cfgTasks, drawn)
                                           ELSE drawn
                        /\ selErr' = Nil
    /\ UNCHANGED <<orchVars, cancelled, cfgTasks, maxAttempts, AfterError, network, pPc, selectedTasks,
                   taskIndex, attempt, taskErr, finalError, pResult, prep, runs,
                   execRes, waitRace, client, txLog, walletErr,
                   ExplicitTaskSequence,
                   ActionsMin, ActionsMax, TaskOrderSequential>>

SelNext == SelectTasksCall

SelSpec == SelInit /\ [][SelNext]_vars

\* ------------------------------------------------------------- properties
Min(a, b) == IF a < b THEN a ELSE b

\* the index currently stored under the key (-1: none, or not a number)
StoredIndex ==
    IF store.found /\ Atoi(store.value).ok THEN Atoi(store.value).val ELSE -1

RanParallel == aggPc # "none"
RanSequential == seqI >= 1 /\ aggPc = "none"

Positions == 1..Len(keys)

\* workers holding a semaphore slot
Holders == {p \in 1..Len(w) : w[p].st \in {"started", "proc", "delay", "send", "release"}}

MaxPos == CHOOSE m \in {keys[p].pos : p \in Positions} :
              \A p \in Positions : keys[p].pos <= m

\* C1: in parallel mode with resume enabled, every SetState that is applied
\* carries a value greater than or equal to the value stored at that moment
\* (the stored checkpoint never regresses).
C1_CheckpointNeverRegresses ==
    [][(RanParallel /\ Len(writes') > Len(writes))
          => writes'[Len(writes')].val >= StoredIndex]_vars

\* C2: in parallel mode with resume enabled and no cancellation, if every
\* identity succeeded then once the run has ended the stored checkpoint is
\* the largest original index of the effective list.
C2_FinalCheckpointIsLargest ==
    (/\ mainPc = "exited"
     /\ RanParallel
     /\ ResumeEnabled
     /\ ~cancelled
     /\ \A p \in Positions : w[p].err = Nil)
        => StoredIndex = MaxPos

\* C3 (as claimed): in parallel mode the checkpoint key is never set to an
\* index k while an identity of the effective list with a smaller original
\* index has not completed successfully.
C3_NeverPastGap ==
    [][(RanParallel /\ Len(writes') > Len(writes))
          => \A p \in Positions :
                 keys[p].pos < writes'[Len(writes')].val => w[p].err = Nil]_vars

\* C3 (amended): in parallel mode the checkpoint key is only ever set to the
\* index reported for an identity whose own processing returned success;
\* identities with smaller indices may still be running or may have failed.
C3_SetOnlyToCompleted ==
    RanParallel =>
        \A i \in 1..Len(writes) :
            \E p \in Positions :
                /\ keys[p].pos = writes[i].pos
                /\ w[p].idx = writes[i].val
                /\ w[p].err = Nil

\* a checkpoint is stored while an identity before it has not succeeded
C3_Witness ==
    /\ RanParallel
    /\ \E i \in 1..Len(writes), p \in Positions :
          /\ keys[p].pos < writes[i].val
          /\ w[p].err # Nil

\* C4: whenever a checkpoint is persisted for a completed identity, in either
\* mode, the value written is that identity's index in the list as originally
\* loaded, also when the run order was shuffled.
C4_WritesOriginalIndex ==
    \A i \in 1..Len(writes) : writes[i].val = writes[i].pos

\* C5: in sequential mode, once the identity at list position i has ended
\* with a non-cancellation error, no identity after position i is processed,
\* the run has ended, and the persisted checkpoint reflects only identities
\* that succeeded before i.
C5_SequentialHalt ==
    RanSequential =>
        \A i \in Positions :
            w[i].err = TaskErr =>
                /\ \A j \in Positions : j > i => w[j].st = "idle"
                /\ mainPc \in {"wait", "exited"}
                /\ \A k \in 1..Len(writes) :
                       \E j \in 1..(i - 1) :
                           /\ w[j].err = Nil
                           /\ keys[j].pos = writes[k].pos
                /\ (Len(writes) > 0 =>
                       store = Stored(Itoa(writes[Len(writes)].val)))

\* identities 0, 1, 2: 0 succeeded, 1 failed, 2 was never processed and the
\* checkpoint is 0
C5_Witness ==
    /\ RanSequential
    /\ ResumeEnabled
    /\ mainPc = "exited"
    /\ Len(keys) = 3
    /\ \A p \in Positions : keys[p].pos = p - 1
    /\ w[1].err = Nil
    /\ w[2].err = TaskErr
    /\ w[3].st = "idle"
    /\ store = Stored(Itoa(0))

\* C6: in sequential mode with resume enabled the successive values written
\* to the checkpoint key are strictly increasing and each exceeds the
\* checkpoint loaded at start, for every identity list.
C6_SequentialStrictlyIncreasing ==
    (RanSequential /\ ResumeEnabled) =>
        \A i \in 1..Len(writes) :
            /\ writes[i].val > lastCompletedIndex
            /\ (i > 1 => writes[i].val > writes[i - 1].val)

\* C7: with resume enabled and a stored checkpoint K >= 0 over n loaded
\* identities, the effective list is exactly the identities with original
\* index K+1..n-1 in original order; when K >= n-1 it is empty, no identity
\* is processed and no checkpoint is written.
C7_EffectiveListAfterCheckpoint ==
    /\ (mainPc = "run" /\ ResumeEnabled /\ readable /\ StoredIndex >= 0)
          => loadedIndex = StoredIndex
    /\ (mainPc # "prepare" /\ ResumeEnabled /\ loadedIndex >= 0) =>
          LET K == loadedIndex
              n == Len(wallets)
          IN /\ Len(keys) = Max(0, n - K - 1)
             /\ \A j \in Positions :
                    /\ keys[j] = wallets[K + 1 + j]
                    /\ keys[j].pos = K + j
             /\ (K >= n - 1 =>
                    /\ keys = <<>>
                    /\ writes = <<>>
                    /\ aggPc = "none"
                    /\ mainPc \in {"run", "wait", "exited"})

\* a run resumed after checkpoint 0 of three identities has processed both
\* remaining identities
C7_Witness ==
    /\ ResumeEnabled
    /\ loadedIndex = 0
    /\ Len(wallets) = 3
    /\ Len(keys) = 2
    /\ w[1].st = "done"
    /\ w[2].st = "done"

\* C8: when a checkpoint K >= 0 was loaded at startup the run order is never
\* shuffled, whatever the configured order: whenever an identity is started
\* or launched, every identity started before it has a smaller original index.
C8_ResumeKeepsLoadOrder ==
    [][loadedIndex >= 0 =>
          /\ ~shuffled'
          /\ \A p \in 1..Len(w) :
                 (w[p].st = "idle" /\ w'[p].st # "idle") =>
                     \A q \in 1..Len(w) :
                         w[q].st # "idle" => keys[q].pos < keys[p].pos]_vars

\* random order is configured, a checkpoint was loaded, and a second identity
\* has been started
C8_Witness ==
    /\ loadedIndex >= 0
    /\ ProcessOrderRandom
    /\ Len(keys) >= 2
    /\ w[1].st # "idle"
    /\ w[2].st # "idle"

\* C9: with resume_enabled = true the identity list is never shuffled, on
\* every run including one that finds no stored checkpoint.
C9_ResumeIgnoresProcessOrder ==
    ResumeEnabled =>
        /\ ~shuffled
        /\ \A i, j \in Positions : i < j => keys[i].pos < keys[j].pos

\* C10: a worker count W <= 1 runs sequential mode with at most one identity
\* in processing; W > 1 runs parallel mode, where the workers holding a slot
\* never outnumber min(W, length of the effective list) and a worker about to
\* return its slot finds room in the semaphore.
C10_ModeBoundsConcurrency ==
    /\ MaxParallelWallets <= 1 =>
          /\ aggPc = "none"
          /\ mainPc \notin {"parSetup", "parLoop", "parAcquire"}
          /\ Cardinality({p \in 1..Len(w) : w[p].st \notin {"idle", "done"}}) <= 1
    /\ MaxParallelWallets > 1 =>
          LET slots == Min(MaxParallelWallets, Len(keys))
          IN /\ mainPc \notin {"seqLoad", "seqLoop", "seqProc", "seqDelay"}
             /\ Cardinality(Holders) <= slots
             /\ semaphore >= 0
             /\ (RanParallel => Cardinality(Holders) + semaphore = slots)
             /\ \A p \in 1..Len(w) : w[p].st = "release" => semaphore < slots

\* two workers hold both slots while the third identity waits for one
C10_Witness ==
    /\ MaxParallelWallets = 2
    /\ Len(keys) = 3
    /\ mainPc = "parAcquire"
    /\ semaphore = 0
    /\ Cardinality(Holders) = 2
    /\ w[3].st = "idle"

\* positions whose worker has sent its result
Reported == {p \in 1..Len(w) : w[p].st \in {"release", "done"}}

\* C11: in parallel mode a failing identity does not halt the others: every
\* worker that ends hands exactly one result to the aggregation loop, and
\* without cancellation every identity of the effective list is launched,
\* IdentityProcessor returns for each of them, and the aggregation loop has
\* received one result per identity when the run ends.
C11_FailureDoesNotHaltOthers ==
    RanParallel =>
        /\ Cardinality(Reported) = Len(resultsChan) + processedCount
        /\ (~cancelled /\ mainPc \in {"wait", "exited"}) =>
               \A p \in Positions : w[p].st # "idle"
        /\ (~cancelled /\ mainPc = "exited") =>
               /\ \A p \in Positions :
                      w[p].st = "done" /\ w[p].err \in {Nil, TaskErr}
               /\ processedCount = Len(keys)
               /\ resultsChan = <<>>
               /\ aggPc = "done"

\* three identities, the first fails, the other two still run and succeed
C11_Witness ==
    /\ RanParallel
    /\ ~cancelled
    /\ mainPc = "exited"
    /\ Len(keys) = 3
    /\ w[1].err = TaskErr
    /\ w[2].err = Nil
    /\ w[3].err = Nil
    /\ processedCount = 3

LiveWorkers == {p \in 1..Len(w) : w[p].st \in {"started", "proc", "delay", "send", "release"}}

\* C13: once cancellation is requested nothing is blocked: the launch loop,
\* every launched worker and the aggregation loop can each take their next
\* step (IdentityProcessor is assumed to return), the wait group counts
\* exactly the goroutines that have not returned, and main can leave
\* wg.Wait() as soon as they all have.
C13_NothingBlocksAfterCancel ==
    cancelled =>
        /\ mainPc = "parLoop" => (aggPc = "load" \/ ENABLED ParLoopHead)
        /\ mainPc = "parAcquire" => ENABLED ParAcquire
        /\ mainPc = "seqLoop" => ENABLED SeqIterate
        /\ mainPc = "seqDelay" => ENABLED SeqDelayEnd
        /\ \A p \in 1..Len(w) :
               /\ w[p].st = "started" => ENABLED WorkerBegin(p)
               /\ (w[p].st = "proc" /\ RanParallel) => ENABLED WorkerProcessReturn(p)
               /\ w[p].st = "delay" => ENABLED WorkerDelayEnd(p)
               /\ w[p].st = "send" => ENABLED WorkerSendResult(p)
               /\ w[p].st = "release" => ENABLED WorkerRelease(p)
        /\ aggPc = "load" => ENABLED AggLoadState
        /\ aggPc = "loop" => ENABLED AggCancelled
        /\ wg = IF RanParallel
                THEN Cardinality(LiveWorkers)
                         + (IF aggPc \in {"load", "loop"} THEN 1 ELSE 0)
                ELSE 0
        /\ (mainPc = "wait" /\ wg = 0) => ENABLED MainWait

\* a cancelled parallel run has ended although an identity was never
\* launched and the aggregation loop had not received every result
C13_Witness ==
    /\ RanParallel
    /\ cancelled
    /\ mainPc = "exited"
    /\ wg = 0
    /\ \E p \in Positions : w[p].st = "idle"
    /\ \E p \in Positions : w[p].st = "done"
    /\ processedCount < Len(keys)

\* ---------------------------------------------- processor and executor
Last(q) == q[Len(q)]

\* the executor has returned for the i-th selected task
Executed(i) == execRes[i] # "none"

\* C14: the runner is invoked for attempts 1, 2, ... and never again after a
\* success, at most max(1, maxAttempts) times; when the executor returns
\* without cancellation it has invoked the runner up to the first success
\* or, with no success, exactly max(1, maxAttempts) times, and it returns the
\* outcome of the last invocation (nil at the first success).
C14_AttemptsUntilFirstSuccess ==
    \A i \in 1..Len(runs) :
        /\ \A k \in 1..(Len(runs[i]) - 1) : runs[i][k] # Nil
        /\ Len(runs[i]) <= Max(1, maxAttempts)
        /\ (pPc \in {"run", "retryWait", "afterErrorWait"} /\ i = taskIndex)
               => attempt = Len(runs[i]) + (IF pPc = "run" THEN 1 ELSE 0)
        /\ (Executed(i) /\ ~cancelled) =>
               /\ Len(runs[i]) >= 1
               /\ execRes[i] = Last(runs[i])
               /\ Last(runs[i]) = Nil \/ Len(runs[i]) = Max(1, maxAttempts)

\* under maxAttempts = 3 the runner failed twice, then succeeded, and the
\* executor returned nil after exactly three invocations
C14_Witness ==
    /\ ~cancelled
    /\ maxAttempts = 3
    /\ Len(runs) >= 1
    /\ runs[1] = <<TaskErr, TaskErr, Nil>>
    /\ execRes[1] = Nil

\* C15: when the scope is cancelled while the executor waits between two
\* attempts, the executor returns the error of the last failed attempt, not
\* the cancellation error, and the runner is not invoked again.
C15_CancelledWaitReturnsTaskError ==
    [][(pPc = "retryWait" /\ cancelled /\ ~waitRace) =>
          /\ execRes'[taskIndex] = Last(runs[taskIndex])
          /\ execRes'[taskIndex] = TaskErr
          /\ runs' = runs
          /\ pPc' # "run"]_vars

\* the executor returned a task error after one of three attempts: its wait
\* was cut short by a cancellation that came after the wait had begun
C15_Witness ==
    /\ cancelled
    /\ ~waitRace
    /\ maxAttempts = 3
    /\ Len(runs) >= 1
    /\ runs[1] = <<TaskErr>>
    /\ execRes[1] = TaskErr

\* Process has returned after SelectTasks gave at least one task
ReturnedAfterSelection == pPc = "returned" /\ Len(selectedTasks) > 0

\* the outcome of the i-th selected task: its preparation error, or what
\* the executor returned for it
TaskOutcome(i) == IF prep[i] = "ok" THEN execRes[i] ELSE prep[i]

\* every selected task was either skipped for a preparation error that is
\* not of the context class, or handed to the executor, which returned
AllAttempted ==
    \A i \in 1..Len(selectedTasks) :
        /\ prep[i] \notin {"none", "client"}
        /\ ~IsContextError(prep[i])
        /\ prep[i] = "ok" => Executed(i)

FailedTasks == {i \in 1..Len(selectedTasks) : TaskOutcome(i) \notin {"none", "client", Nil}}

\* the error of the first selected task that failed, nil when none failed
FirstTaskError ==
    IF FailedTasks = {} THEN Nil
    ELSE TaskOutcome(CHOOSE i \in FailedTasks : \A j \in FailedTasks : i <= j)

\* C16 (as stated): Process returns nil whenever selection succeeded, the
\* scope was not cancelled and every selected task was attempted, even if
\* some failed; its only non-nil results are the cancellation error and a
\* selection error.
C16_NilEvenIfTasksFailed ==
    pPc = "returned" =>
        /\ (Len(selectedTasks) > 0 /\ ~cancelled /\ AllAttempted) => pResult = Nil
        /\ pResult # Nil => pResult = CtxErr

\* C16 (amended): when every selected task was attempted Process returns the
\* error of the first task that failed, and nil only when none failed; any
\* other non-nil result is an error of the context class.
C16_ReturnsFirstTaskError ==
    ReturnedAfterSelection =>
        /\ AllAttempted => pResult = FirstTaskError
        /\ pResult # Nil => (IsContextError(pResult) \/ pResult = FirstTaskError)

\* two tasks were attempted without cancellation, the first exhausted its
\* attempts, the second succeeded, and Process returned the first's error
C16_Witness ==
    /\ ReturnedAfterSelection
    /\ ~cancelled
    /\ AllAttempted
    /\ Len(selectedTasks) = 2
    /\ execRes[1] = TaskErr
    /\ execRes[2] = Nil
    /\ pResult = TaskErr

\* C17: within one identity a task's failure that is not a cancellation does
\* not stop the later tasks: when Process returns and the scope was never
\* cancelled, every selected task was prepared and, where preparation
\* succeeded, executed.
C17_FailureDoesNotStopLaterTasks ==
    (ReturnedAfterSelection /\ ~cancelled) =>
        \A i \in 1..Len(selectedTasks) :
            /\ prep[i] # "none"
            /\ prep[i] = "ok" => Len(runs[i]) >= 1

\* no task is begun by the step: a task whose preparation has begun after
\* the step had begun before it
NoTaskStarted ==
    \A i \in 1..Len(prep') :
        prep'[i] # "none" => (i <= Len(prep) /\ prep[i] # "none")

\* C18 (as stated): once the scope is cancelled while Process is running, no
\* selected task that had not yet started is started, and Process returns
\* the cancellation error.
C18_CancelReturnsCancellation ==
    [][(cancelled /\ pPc # "returned") =>
          /\ NoTaskStarted
          /\ pPc' = "returned" => pResult' = CtxErr]_vars

\* C18 (amended): once the scope is cancelled while Process is running, no
\* selected task that had not yet started is started; Process returns an
\* error of the context class, except that a return from the last selected
\* task (or from a selection that gave no task) yields the first recorded
\* task error, nil if there is none.
C18_CancelStartsNoTask ==
    [][(cancelled /\ pPc # "returned") =>
          /\ NoTaskStarted
          /\ pPc' = "returned" =>
                \/ IsContextError(pResult')
                \/ /\ taskIndex = Len(selectedTasks')
                   /\ pResult' = finalError']_vars

\* the scope was cancelled during the first of two tasks and Process
\* returned the cancellation error without starting the second
C18_Witness ==
    /\ cancelled
    /\ pPc = "returned"
    /\ Len(selectedTasks) = 2
    /\ prep[1] = "ok"
    /\ prep[2] = "none"
    /\ pResult = CtxErr

\* C19: when SelectTasks fails with ErrNoValidTasksSelected, Process invokes
\* no runner and returns nil, a result on which the sequential loop does
\* not halt.
C19_NoTasksReturnsNil ==
    (pPc = "returned" /\ Len(SelectTasks(cfgTasks)) = 0) =>
        /\ pResult = Nil
        /\ selectedTasks = <<>>
        /\ runs = <<>>
        /\ ~SeqHaltsOn(pResult)

\* two tasks are configured, none is enabled, and Process has returned nil
C19_Witness ==
    /\ pPc = "returned"
    /\ Len(cfgTasks) = 2
    /\ \A i \in 1..Len(cfgTasks) : ~cfgTasks[i].enabled
    /\ pResult = Nil

\* C20: an enabled task that is absent from the constructor registry is
\* skipped and never fatal: when the only failures of an identity are such
\* tasks and the scope is not cancelled, Process returns a result on which
\* the sequential loop does not halt, so no later identity is left
\* unprocessed.
C20_UnregisteredTaskNeverFatal ==
    (/\ ReturnedAfterSelection
     /\ ~cancelled
     /\ \A i \in 1..Len(selectedTasks) :
            TaskOutcome(i) \in {Nil, ErrTaskConstructorNotFound})
        => ~SeqHaltsOn(pResult)

\* ------------------------------------------------------------- selector
\* positions of the explicit sequence whose name is that of an enabled entry
\* of cfg.Tasks
ResolvedPositions ==
    {k \in 1..Len(ExplicitTaskSequence) :
        \E i \in 1..Len(cfgTasks) :
            /\ cfgTasks[i].name = ExplicitTaskSequence[k]
            /\ cfgTasks[i].enabled}

\* the enabled entry a name stands for: the last one in cfg.Tasks
EnabledEntry(n) ==
    CHOOSE i \in 1..Len(cfgTasks) :
        /\ cfgTasks[i].name = n
        /\ cfgTasks[i].enabled
        /\ \A j \in (i + 1)..Len(cfgTasks) :
               ~(cfgTasks[j].name = n /\ cfgTasks[j].enabled)

\* the i-th of these positions, in the order of the sequence
KthResolved(i) ==
    CHOOSE k \in ResolvedPositions :
        Cardinality({j \in ResolvedPositions : j <= k}) = i

\* SelectTasks has returned from its random-count branch with a pool
ReturnedRandomCount ==
    /\ selPc = "returned"
    /\ Len(ExplicitTaskSequence) = 0
    /\ Len(AvailableTasks(cfgTasks)) > 0

\* C21: with a non-empty explicit sequence SelectTasks returns exactly the
\* entries of the names that resolve to an enabled entry of cfg.Tasks, in the
\* order of the sequence, whatever the count and order settings are, and it
\* fails with ErrNoValidTasksSelected exactly when no name resolves.
C21_ExplicitSequenceSelection ==
    (selPc = "returned" /\ Len(ExplicitTaskSequence) > 0) =>
        /\ Len(selResult) = Cardinality(ResolvedPositions)
        /\ \A i \in 1..Len(selResult) :
               selResult[i] = TaskEntry(cfgTasks,
                               EnabledEntry(ExplicitTaskSequence[KthResolved(i)]))
        /\ selErr = (IF ResolvedPositions = {} THEN ErrNoValidTasksSelected ELSE Nil)
        /\ numTasksToSelect = 0
        /\ picks = <<>>

\* cfg.Tasks is a enabled, b disabled, c enabled; the sequence a, b, c gave
\* a, c
C21_Witness ==
    /\ selPc = "returned"
    /\ Len(cfgTasks) = 3
    /\ cfgTasks[1].enabled /\ ~cfgTasks[2].enabled /\ cfgTasks[3].enabled
    /\ \A i \in 1..3 : cfgTasks[i].name = i
    /\ ExplicitTaskSequence = <<1, 2, 3>>
    /\ Len(selResult) = 2
    /\ selResult[1].name = 1
    /\ selResult[2].name = 3
    /\ selErr = Nil

\* C22: in random-count mode with a non-empty pool the number of selected
\* tasks lies between min' = max(min, 0) and max' = max(max(max, 0), min');
\* it lies between min and max when 0 <= min <= max, and min = max = 0 gives
\* an empty selection and no error.
C22_CountWithinClampedRange ==
    ReturnedRandomCount =>
        LET lo == Max(ActionsMin, 0)
            hi == Max(Max(ActionsMax, 0), lo)
        IN /\ selErr = Nil
           /\ lo <= Len(selResult) /\ Len(selResult) <= hi
           /\ (0 <= ActionsMin /\ ActionsMin <= ActionsMax) =>
                  (ActionsMin <= Len(selResult) /\ Len(selResult) <= ActionsMax)
           /\ (ActionsMin = 0 /\ ActionsMax = 0) => selResult = <<>>

\* min is above a negative max: max was raised to min and min tasks were
\* selected
C22_Witness ==
    /\ ReturnedRandomCount
    /\ ActionsMin = MaxCount
    /\ ActionsMax = -1
    /\ Len(selResult) = MaxCount
    /\ selErr = Nil

\* C23: in random-count mode the selection has exactly numTasksToSelect
\* entries, each an entry of the enabled pool; every sequence of draws from
\* the pool is possible, so a task may occur several times and the selection
\* may be longer than the pool; with a pool of one task every selected task
\* is that task.
C23_DrawnWithReplacement ==
    LET pool == AvailableTasks(cfgTasks)
    IN /\ (selPc = "call" /\ Len(ExplicitTaskSequence) = 0 /\ Len(pool) > 0) =>
              \A n \in TaskCounts(ActionsMin, ActionsMax) :
                  \A d \in [1..n -> 1..Len(pool)] :
                      ENABLED (picks' = d /\ SelectTasksCall)
       /\ ReturnedRandomCount =>
              /\ Len(selResult) = numTasksToSelect
              /\ Len(picks) = numTasksToSelect
              /\ \A i \in 1..Len(selResult) :
                     \E k \in 1..Len(pool) : selResult[i] = pool[k]
              /\ \A k \in 1..Len(pool) :
                     Cardinality({i \in 1..Len(selResult) : selResult[i] = pool[k]})
                         = Cardinality({i \in 1..Len(picks) : picks[i] = k})
              /\ Len(pool) = 1 =>
                     \A i \in 1..Len(selResult) : selResult[i] = pool[1]

\* the pool holds one task and two tasks were selected: the same task twice
C23_Witness ==
    /\ ReturnedRandomCount
    /\ Len(AvailableTasks(cfgTasks)) = 1
    /\ numTasksToSelect = 2
    /\ Len(selResult) = 2
    /\ selResult[1] = selResult[2]

\* C24: every task returned by SelectTasks, in either mode, is enabled in the
\* configuration and has a constructor in the registry.
C24_SelectedTasksAreRegistered ==
    selPc = "returned" =>
        \A i \in 1..Len(selResult) :
            selResult[i].enabled /\ selResult[i].registered

\* ------------------------------------------- transaction log, checkpoint
\* a record of the i-th selected task was handed to LogTransaction
Logged(i) == \E k \in 1..Len(txLog) : txLog[k].task = i

\* C25: a failure of LogTransaction or of SetState is only logged: whether or
\* not the record could be written, the task's result is what the executor
\* returned and the record carries it, finalError and the result of Process
\* are those of the tasks alone, and without cancellation the next task is
\* gone on to; whether or not SetState succeeded, the wallet's result is that
\* of Process, and after a nil result the sequential loop does not halt.
C25_StorageFailureNeverBlocks ==
    [][/\ \A i \in 1..Len(execRes') :
              execRes'[i] # "none" =>
                  /\ execRes'[i] = Last(runs'[i])
                  /\ \E k \in 1..Len(txLog') :
                         /\ txLog'[k].task = i
                         /\ txLog'[k].status = TxStatus(Last(runs'[i]))
       /\ Len(txLog') > Len(txLog) =>
              /\ finalError' = (IF finalError = Nil
                                THEN Last(runs'[taskIndex]) ELSE finalError)
              /\ (~cancelled /\ taskIndex < Len(selectedTasks)) => pPc' = "taskDelay"
              /\ taskIndex = Len(selectedTasks) =>
                     (pPc' = "returned" /\ pResult' = finalError')
       /\ pPc' = "walletDone" =>
              /\ walletErr' = pResult'
              /\ pResult' = Nil => ~SeqHaltsOn(walletErr')
              /\ Len(writes') <= 1]_vars

\* the record of the first task could not be written, the second task still
\* ran, Process returned nil, SetState failed and the wallet's result is nil
C25_Witness ==
    /\ pPc = "walletDone"
    /\ ResumeEnabled
    /\ ~cancelled
    /\ Len(selectedTasks) = 2
    /\ Len(txLog) = 2
    /\ ~txLog[1].ok
    /\ execRes = <<Nil, Nil>>
    /\ pResult = Nil
    /\ writes = <<>>
    /\ walletErr = Nil

\* C26: within one identity the tasks run strictly in selected order and
\* never overlap: when the runner of a task has been invoked, every task
\* before it has been prepared and, if it was executed, has finished its
\* attempts, has had its client closed and its outcome handed to the
\* transaction log; no later task has been touched, at most the current task
\* holds an open client, and the log is written in selected order.
C26_TasksInOrderNoOverlap ==
    /\ \A j \in 1..Len(selectedTasks) :
           /\ Len(runs[j]) >= 1 =>
                  \A i \in 1..(j - 1) :
                      /\ prep[i] \notin {"none", "client"}
                      /\ prep[i] = "ok" =>
                             (Executed(i) /\ client[i] # "open" /\ Logged(i))
                      /\ prep[i] # "ok" => runs[i] = <<>>
           /\ j > taskIndex => (runs[j] = <<>> /\ prep[j] = "none")
           /\ client[j] = "open" =>
                  (j = taskIndex /\ pPc \in {"run", "retryWait", "afterErrorWait"})
           /\ Executed(j) => Logged(j)
    /\ \A k \in 1..(Len(txLog) - 1) : txLog[k].task < txLog[k + 1].task

\* the first task used up its three attempts, its client is closed and its
\* failure is in the log; the runner of the second task has been invoked
C26_Witness ==
    /\ Len(selectedTasks) = 2
    /\ Len(runs[1]) = 3
    /\ execRes[1] = TaskErr
    /\ client[1] = "closed"
    /\ Len(txLog) >= 1
    /\ txLog[1].task = 1
    /\ txLog[1].status = "failed"
    /\ client[2] = "open"
    /\ Len(runs[2]) >= 1

SavedFor(s, p) ==
    /\ keys[p].pos = s.pos
    /\ w[p].idx = s.val
    /\ w[p].err = Nil
    /\ w[p].st \notin {"idle", "started", "proc"}

\* C28: no checkpoint is persisted for an identity whose processing returned
\* a non-nil result, in either mode: every SetState applied or pending
\* carries the index of a list position whose processing returned nil in
\* this run, none belongs to a position that failed or was cancelled, and
\* nothing is written unless resume is enabled.
C28_NoCheckpointForFailedIdentity ==
    /\ \A i \in 1..Len(writes) : \E p \in Positions : SavedFor(writes[i], p)
    /\ \A s \in pendingSaves : \E p \in Positions : SavedFor(s, p)
    /\ \A p \in Positions :
           w[p].err \notin {Nil, "none"} =>
               /\ \A i \in 1..Len(writes) : writes[i].pos # keys[p].pos
               /\ \A s \in pendingSaves : s.pos # keys[p].pos
    /\ (Len(writes) > 0 \/ pendingSaves # {}) => ResumeEnabled

\* a parallel run of two identities has ended: the first failed, the second
\* succeeded, and the one checkpoint written is that of the second
C28_Witness ==
    /\ RanParallel
    /\ mainPc = "exited"
    /\ Len(keys) = 2
    /\ w[1].err = TaskErr
    /\ w[2].err = Nil
    /\ Len(writes) = 1
    /\ writes[1].val = w[2].idx

\* C29: with resume enabled, a failing read of the checkpoint and a stored
\* value that is not a base-10 integer are treated like not-found:
\* prepareWalletsToProcess ends with no checkpoint loaded and the full
\* identity list, and the run goes on.
C29_UnusableCheckpointStartsAtBeginning ==
    [][(/\ mainPc = "prepare"
        /\ mainPc' # "prepare"
        /\ ResumeEnabled
        /\ (~readable \/ ~store.found \/ ~Atoi(store.value).ok)) =>
          /\ loadedIndex' = -1
          /\ mainPc' = "run"
          /\ keys' = wallets'
          /\ Len(keys') = Len(wallets)
          /\ \A i \in 1..Len(wallets) : \E j \in 1..Len(keys') : keys'[j] = wallets[i]]_vars

\* the stored value does not parse, and all three identities were processed
C29_Witness ==
    /\ ResumeEnabled
    /\ store = Stored(<<"x">>)
    /\ loadedIndex = -1
    /\ Len(wallets) = 3
    /\ Len(keys) = 3
    /\ mainPc = "exited"
    /\ \A p \in Positions : w[p].st = "done"

\* C30: in parallel mode workers are launched in list order: the worker of a
\* list position is started only by taking a free semaphore slot and only
\* when the worker of every earlier position has been launched; nothing is
\* said about the order in which they complete.
C30_LaunchInListOrder ==
    [][\A p \in 1..Len(w') :
          (p <= Len(w) /\ w[p].st = "idle" /\ w'[p].st # "idle" /\ MaxParallelWallets > 1) =>
              /\ w'[p].st = "started"
              /\ semaphore > 0
              /\ semaphore' = semaphore - 1
              /\ \A q \in 1..(p - 1) : w[q].st # "idle"
              /\ \A q \in (p + 1)..Len(w) : w'[q].st = "idle"]_vars

\* the worker of the second position has returned while the worker of the
\* first is still processing
C30_Witness ==
    /\ RanParallel
    /\ Len(keys) >= 2
    /\ w[1].st = "proc"
    /\ w[2].st = "done"

\* every attempt the executor is allowed has been made for the current task,
\* and every one of them failed
AllAttemptsFailed ==
    /\ Len(runs[taskIndex]) = Max(1, maxAttempts)
    /\ \A k \in 1..Len(runs[taskIndex]) : runs[taskIndex][k] # Nil

\* C31: ExecuteTaskWithRetries waits the after-error delay only after all
\* attempts have failed (never after a success, never out of a cancelled wait
\* between attempts), never when both bounds of the after-error range are
\* zero, and whether that wait elapses or is interrupted by cancellation the
\* call returns the error of the last attempt.
C31_AfterErrorDelayOnlyAfterLastFailure ==
    [][/\ pPc' = "afterErrorWait" =>
            /\ AllAttemptsFailed'
            /\ pPc \in {"run", "afterErrorWait"}
            /\ ~(AfterError.Min = 0 /\ AfterError.Max = 0)
       /\ (pPc = "afterErrorWait" /\ pPc' # "afterErrorWait") =>
            /\ execRes'[taskIndex] = Last(runs[taskIndex])
            /\ execRes'[taskIndex] # Nil]_vars

\* the last of several attempts has failed, the after-error wait is running
\* and the scope is cancelled during it
C31_Witness ==
    /\ pPc = "afterErrorWait"
    /\ maxAttempts = MaxAttempts
    /\ Len(runs[taskIndex]) = MaxAttempts
    /\ cancelled
    /\ ~waitRace

\* the drawn set of a returned random-count call, in draw order
Drawn == [i \in 1..Len(picks) |-> AvailableTasks(cfgTasks)[picks[i]]]

\* s holds the entries of t, each as often as t does
IsPermutationOf(s, t) ==
    /\ Len(s) = Len(t)
    /\ \A k \in 1..Len(cfgTasks) :
           Cardinality({i \in 1..Len(s) : s[i].idx = k})
               = Cardinality({i \in 1..Len(t) : t[i].idx = k})

\* C32: in random-count mode with task order sequential the returned list is
\* a permutation of the drawn set in non-decreasing order of each entry's
\* place in cfg.Tasks; with any other task order it is the drawn set in draw
\* order.
C32_SequentialOrderByCatalogPosition ==
    ReturnedRandomCount =>
        IF TaskOrderSequential
        THEN /\ IsPermutationOf(selResult, Drawn)
             /\ \A i, j \in 1..Len(selResult) :
                    i < j => selResult[i].idx <= selResult[j].idx
        ELSE selResult = Drawn

\* C33: in random-count mode an empty pool of enabled tasks makes SelectTasks
\* fail with ErrNoValidTasksSelected whatever min and max are, also when they
\* clamp to [0, 0]; an empty selection without an error is returned only
\* from the random-count branch with a non-empty pool and a drawn count of 0.
C33_EmptyPoolAlwaysFails ==
    selPc = "returned" =>
        /\ (Len(ExplicitTaskSequence) = 0 /\ Len(AvailableTasks(cfgTasks)) = 0) =>
               (selErr = ErrNoValidTasksSelected /\ selResult = <<>>)
        /\ (selErr = Nil /\ selResult = <<>>) =>
               /\ Len(ExplicitTaskSequence) = 0
               /\ Len(AvailableTasks(cfgTasks)) > 0
               /\ numTasksToSelect = 0

\* every entry of cfg.Tasks is disabled and the range clamps to [0, 0]: the
\* call failed
C33_Witness ==
    /\ selPc = "returned"
    /\ Len(ExplicitTaskSequence) = 0
    /\ Len(cfgTasks) > 0
    /\ \A i \in 1..Len(cfgTasks) : ~cfgTasks[i].enabled
    /\ ActionsMin = -1
    /\ ActionsMax = 0
    /\ selErr = ErrNoValidTasksSelected
    /\ selResult = <<>>

\* the values for which a checkpoint save has been issued and not dropped
IssuedValues ==
    {s.val : s \in pendingSaves} \cup {writes[i].val : i \in 1..Len(writes)}

\* C34: in parallel mode highestCompletedIndex of the aggregation loop starts
\* from the stored checkpoint (or -1) and never decreases; every save the loop
\* issues carries a value greater than highestCompletedIndex before it, hence
\* greater than every value issued earlier and than the checkpoint loaded at
\* start; a result at or below it issues no save.
C34_IssuedSavesStrictlyIncrease ==
    [][/\ (aggPc = "load" /\ aggPc' = "loop") =>
              highestCompletedIndex' =
                  (IF ResumeEnabled /\ readable THEN StoredIndex ELSE -1)
       /\ aggPc = "loop" => highestCompletedIndex' >= highestCompletedIndex
       /\ (RanParallel /\ aggPc # "load") => highestCompletedIndex >= loadedIndex
       /\ \A s \in pendingSaves' \ pendingSaves :
              /\ s.val > highestCompletedIndex
              /\ s.val > loadedIndex
              /\ \A v \in IssuedValues : s.val > v
              /\ highestCompletedIndex' = s.val
       /\ (RanParallel /\ highestCompletedIndex' = highestCompletedIndex) =>
              pendingSaves' \subseteq pendingSaves]_vars

\* a run resumed after checkpoint 0: the saves for the indices 1 and 2 have
\* both been issued and neither has run yet
C34_Witness ==
    /\ RanParallel
    /\ ResumeEnabled
    /\ loadedIndex = 0
    /\ {s.val : s \in pendingSaves} = {1, 2}
    /\ highestCompletedIndex = 2

\* results of the worker at list position p that wait in the channel
InChannel(p) == {k \in 1..Len(resultsChan) : resultsChan[k].pos = keys[p].pos}

\* C35: a launched worker sends exactly one result on every path (cancelled
\* before it starts, failure, success, success with an interrupted delay): it
\* has sent none before its deferred send and one after it, carrying its index
\* and its error; the send can always be taken at once, also after the
\* aggregation loop has returned on cancellation.
C35_OneResultPerWorkerNeverBlocks ==
    RanParallel =>
        /\ \A p \in 1..Len(w) :
               /\ w[p].st = "send" => ENABLED WorkerSendResult(p)
               /\ Cardinality(InChannel(p)) <= (IF p \in Reported THEN 1 ELSE 0)
               /\ \A k \in InChannel(p) :
                      /\ resultsChan[k].originalIndex = w[p].idx
                      /\ resultsChan[k].err = w[p].err
        /\ Cardinality(Reported) = Len(resultsChan) + processedCount
        /\ Len(resultsChan) <= Len(keys)

\* the aggregation loop has returned on cancellation with a result left in
\* the channel, and a worker that was cancelled before it started is about
\* to send
C35_Witness ==
    /\ RanParallel
    /\ cancelled
    /\ aggPc = "done"
    /\ processedCount < Len(keys)
    /\ Len(resultsChan) >= 1
    /\ \E p \in 1..Len(w) : w[p].st = "send" /\ w[p].err = CtxErr

\* C36: with resume disabled no call is made on the state store in either
\* mode and on any path: no GetState, no SetState is made or issued, the
\* stored value stays what it was and is not what the run starts from.
C36_ResumeDisabledLeavesStoreAlone ==
    [][~ResumeEnabled =>
          /\ storeCalls' = {}
          /\ store' = store
          /\ writes' = <<>>
          /\ pendingSaves' = {}
          /\ loadedIndex' = -1
          /\ lastCompletedIndex' = -1
          /\ highestCompletedIndex' <= highestCompletedIndex
                 \/ highestCompletedIndex' \in {w[p].idx : p \in 1..Len(w)}]_vars

\* a parallel run with resume disabled has ended with a success, over a store
\* that holds a usable checkpoint
C36_Witness ==
    /\ ~ResumeEnabled
    /\ RanParallel
    /\ mainPc = "exited"
    /\ \E p \in Positions : w[p].err = Nil
    /\ StoredIndex >= 0
    /\ loadedIndex = -1
    /\ storeCalls = {}

\* the task is inside ExecuteTaskWithRetries
InExecutor == pPc \in {"run", "retryWait", "afterErrorWait"}

\* C37: within one Process call at most one client is open at any time; a
\* client is open only while its own task is inside ExecuteTaskWithRetries
\* and is closed when executeAndLogTask has returned for it, whatever the
\* task's result and whether or not the scope is cancelled, so none is open
\* when the next task starts or when Process has returned; a task on the
\* network "any" is handed no client.
C37_AtMostOneClientOpen ==
    pPc \notin {"idle", "select"} =>
        /\ Cardinality({i \in 1..Len(client) : client[i] = "open"}) <= 1
        /\ \A i \in 1..Len(client) :
               /\ client[i] = "open" => (i = taskIndex /\ InExecutor)
               /\ (i = taskIndex /\ InExecutor /\ network[i] # "any") =>
                      client[i] = "open"
               /\ client[i] = "closed" <=> (Executed(i) /\ network[i] # "any")
               /\ network[i] = "any" => client[i] \in {"none", "nil"}
               /\ (prep[i] = "ok" /\ network[i] = "any") => client[i] = "nil"
               /\ client[i] # "none" => prep[i] = "ok"

\* the first task ran on the network "any" without a client; the client of
\* the second was closed after its run failed under a cancelled scope
C37_Witness ==
    /\ pPc = "returned"
    /\ cancelled
    /\ Len(selectedTasks) = 2
    /\ network = <<"any", "evm">>
    /\ client = <<"nil", "closed">>
    /\ execRes[1] = Nil
    /\ execRes[2] = CtxErr

\* the records of the i-th selected task handed to LogTransaction
RecordsOf(i) == {k \in 1..Len(txLog) : txLog[k].task = i}

\* C38: one record is handed to the transaction log for each task for which
\* ExecuteTaskWithRetries has returned, with status success exactly when it
\* returned nil and failed otherwise; a task skipped at the registry lookup
\* or at the client gets none; when Process has returned, every task that
\* was handed to the executor has its record, also when the scope was
\* cancelled during the task.
C38_OneRecordPerExecutedTask ==
    pPc \notin {"idle", "select"} =>
        \A i \in 1..Len(selectedTasks) :
            /\ Cardinality(RecordsOf(i)) = (IF Executed(i) THEN 1 ELSE 0)
            /\ prep[i] # "ok" => RecordsOf(i) = {}
            /\ \A k \in RecordsOf(i) :
                   /\ txLog[k].status \in {"success", "failed"}
                   /\ txLog[k].status = "success" <=> execRes[i] = Nil
                   /\ txLog[k].status = "success" <=> Last(runs[i]) = Nil
            /\ (pPc \in {"returned", "walletDone"} /\ prep[i] = "ok") =>
                   RecordsOf(i) # {}

\* the first task was skipped for want of a constructor and has no record;
\* the second was cut short by cancellation and its record says failed
C38_Witness ==
    /\ pPc = "returned"
    /\ cancelled
    /\ Len(selectedTasks) = 2
    /\ prep[1] = ErrTaskConstructorNotFound
    /\ prep[2] = "ok"
    /\ Last(runs[2]) = CtxErr
    /\ Len(txLog) = 1
    /\ txLog[1].task = 2
    /\ txLog[1].status = "failed"

\* the selector answered with no task and no error: there are enabled tasks
\* and the number of tasks to select is zero
EmptySelection ==
    /\ Len(SelectTasks(cfgTasks)) > 0
    /\ TaskCounts(ActionsMin, ActionsMax) = {0}

\* C39: when the selector returns an empty selection (the number of tasks to
\* select is zero), Process runs no task and returns nil: no runner is
\* invoked, no client is opened, no transaction is recorded; the wallet then
\* counts as completed, its result is nil, and with resume enabled SetState
\* is called with its index, so that the checkpoint holds that index unless
\* the write itself failed.
C39_EmptySelectionCompletesWallet ==
    (EmptySelection /\ pPc \in {"returned", "walletDone"}) =>
        /\ pResult = Nil
        /\ selectedTasks = <<>>
        /\ runs = <<>>
        /\ client = <<>>
        /\ txLog = <<>>
        /\ pPc = "walletDone" =>
               /\ walletErr = Nil
               /\ ResumeEnabled =>
                      /\ "SetState" \in storeCalls
                      /\ \/ writes = <<>> /\ store = NotFound
                         \/ /\ writes = <<[val |-> wallets[1].pos,
                                           pos |-> wallets[1].pos]>>
                            /\ store = Stored(Itoa(wallets[1].pos))
               /\ ~ResumeEnabled => storeCalls = {} /\ store = NotFound

\* resume is enabled, nothing was selected, and the checkpoint names the wallet
C39_Witness ==
    /\ EmptySelection
    /\ ResumeEnabled
    /\ pPc = "walletDone"
    /\ walletErr = Nil
    /\ runs = <<>>
    /\ txLog = <<>>
    /\ store = Stored(Itoa(wallets[1].pos))

\* the identity at original index p was processed in this run and
\* proc.Process returned nil for it
CompletedInRun(p) ==
    \E i \in 1..Len(w) : w[i].st = "done" /\ w[i].idx = p /\ w[i].err = Nil

\* C40: in sequential mode, when the order was not shuffled and no address
\* occurs twice, the completed identities form a gap-free prefix: for every
\* value k written under the checkpoint key in this run, each identity with
\* original index <= k lay at or below the checkpoint loaded at start or was
\* processed with a nil result in this run; the key holds the last value
\* written.
C40_SequentialCompletedPrefix ==
    (RanSequential /\ ~shuffled /\ DistinctAddrs(wallets)) =>
        /\ \A n \in 1..Len(writes) :
               /\ writes[n].val \in 0..(Len(wallets) - 1)
               /\ \A p \in 0..writes[n].val :
                      p <= loadedIndex \/ CompletedInRun(p)
        /\ writes # <<>> => store = Stored(Itoa(writes[Len(writes)].val))

\* three identities, the first lay at the loaded checkpoint, the other two
\* were processed with a nil result and their indices written in order
C40_Witness ==
    /\ RanSequential
    /\ ~shuffled
    /\ DistinctAddrs(wallets)
    /\ Len(wallets) = 3
    /\ loadedIndex = 0
    /\ Len(writes) = 2
    /\ writes[1].val = 1
    /\ writes[2].val = 2
    /\ CompletedInRun(1)
    /\ CompletedInRun(2)
    /\ store = Stored(Itoa(2))
====
